---------------------------- MODULE Spec2Model ----------------------------
(***************************************************************************)
(* Model of the query-orchestration pipeline of the crypto agent:          *)
(* TrenchCryptoAgent.select_tools / process_query / _build_final_response  *)
(* / _ensure_required_fields (src/src/agent.py) and parse_llm_response /   *)
(* extract_info_from_text / fallback_response                              *)
(* (src/src/utils/response_utils.py).                                      *)
(*                                                                         *)
(* Conventions.                                                            *)
(*  - A Python dict is a TLA+ function; "k in d" is k \in DOMAIN d and     *)
(*    d.get(k, default) is Get(d, k, default).                             *)
(*  - A Python dict whose iteration order matters (tool_responses) is a    *)
(*    record [keys, vals]: keys in insertion order.                        *)
(*  - A text built by an f-string is the sequence of its pieces, so that   *)
(*    "the message is embedded in the answer" is a statement about the     *)
(*    value; an atomic text t is <<t>>.                                    *)
(*  - A call that may raise returns [exc |-> message] or [ret |-> value].  *)
(***************************************************************************)
EXTENDS Integers, Sequences, FiniteSets, TLC

\* ------------------------------------------------------------------ bounds
MaxMinArticles == 3   \* min_articles ranges over -1 .. MaxMinArticles
MaxArticles == 2      \* longest article list one tool call returns
MaxTweets == 1        \* longest tweet list one twitter call returns
MaxSelected == 2      \* longest tools_needed list of a selection reply
MaxClock == 3         \* the cache is followed for this many units of time
MaxAge == 2           \* is_cache_stale is asked about ages 1 .. MaxAge

\* ----------------------------------------------------------- dict helpers
Get(d, k, default) == IF k \in DOMAIN d THEN d[k] ELSE default

DictPut(d, k, v) == [x \in (DOMAIN d) \cup {k} |-> IF x = k THEN v ELSE d[x]]

RECURSIVE SeqContains(_, _)
SeqContains(s, x) ==
  IF s = <<>> THEN FALSE
  ELSE IF Head(s) = x THEN TRUE ELSE SeqContains(Tail(s), x)

\* tool_responses = {} and tool_responses[name] = result (insertion ordered)
EmptyOrderedDict == [keys |-> <<>>, vals |-> <<>>]

OrderedHas(d, k) == SeqContains(d.keys, k)

OrderedPut(d, k, v) ==
  [keys |-> IF OrderedHas(d, k) THEN d.keys ELSE Append(d.keys, k),
   vals |-> DictPut(d.vals, k, v)]

\* s[:n] of Python, n possibly negative
PySliceTo(s, n) ==
  IF n >= 0
    THEN SubSeq(s, 1, IF n < Len(s) THEN n ELSE Len(s))
    ELSE SubSeq(s, 1, IF Len(s) + n > 0 THEN Len(s) + n ELSE 0)

SeqsUpTo(S, n) == UNION {[1..k -> S] : k \in 0..n}

\* ------------------------------------------------------------ tool registry
\* self.tools after __init__: registration order of the four tools
RegisteredTools == <<"crypto_news", "crypto_search", "twitter", "dexscreener">>

IsRegistered(name) == SeqContains(RegisteredTools, name)

\* --------------------------------------------------------------- queries
\* The queries of the model, with what query.lower() and
\* query.lower().split("token")[0].strip() yield on each.
Queries == {"bitcoin price trends", "xyzzytoken123 analysis", "Token launch news", ""}

\* not query.lower().strip()
IsBlank(q) == q = ""

ContainsToken(q) == q \in {"xyzzytoken123 analysis", "Token launch news"}

TokenPrefix(q) ==
  CASE q = "xyzzytoken123 analysis" -> <<"xyzzy">>
    [] q = "Token launch news" -> <<>>
    [] OTHER -> <<q>>

\* additional_context: None (as {}: both are falsy wherever the code reads
\* it), and dicts whose token_data is a dict with a token_name, a dict without one, or not a dict.
AdditionalContexts ==
  { [tag |-> "None"],
    [tag |-> "dict", keys |-> {"token_data"}, token_data |-> [tag |-> "dict", token_name |-> <<"pepe">>]],
    [tag |-> "dict", keys |-> {"token_data"}, token_data |-> [tag |-> "dict", token_name |-> <<>>]],
    [tag |-> "dict", keys |-> {"token_data"}, token_data |-> [tag |-> "str"]] }

\* additional_context and len(additional_context) > 0
ContextGiven(ctx) == ctx.tag = "dict" /\ ctx.keys # {}

HasTokenData(ctx) == ContextGiven(ctx) /\ "token_data" \in ctx.keys

\* ------------------------------------------------------ articles and tweets
ArticlePool ==
  { [title |-> <<"ETF approved">>, summary |-> <<"s1">>, link |-> <<"https://n/1">>, category |-> <<"Markets">>],
    [title |-> <<"Miner selloff">>, summary |-> <<"s2">>, link |-> <<"https://n/2">>, category |-> <<"Mining">>] }

TweetPool == { [id |-> <<"101">>, author |-> <<"alice">>, text |-> <<"gm">>] }

\* the article synthesized for one tweet
TweetArticle(tweet) ==
  [title |-> <<"Tweet by @">> \o tweet.author,
   summary |-> tweet.text,
   link |-> <<"https://twitter.com/">> \o tweet.author \o <<"/status/">> \o tweet.id,
   category |-> <<"Social Media">>]

TweetArticles(tweets) == [i \in 1..Len(tweets) |-> TweetArticle(tweets[i])]


\* ------------------------------------------------------------ tool results
\* What each tool's execute can hand back for {"query": q}. Only the keys
\* process_query reads (error, articles, tweets, time_context) are kept.

\* CryptoSearchTool.execute: an error-flagged empty result for blank keywords,
\* else a result without "error" (its list possibly empty); _process_article
\* raises AttributeError on an entry that is no dict.
CryptoSearchOutcomes(q) ==
  IF IsBlank(q)
    THEN {[ret |-> [error |-> <<"Keywords parameter is required">>, articles |-> <<>>]]}
    ELSE {[exc |-> <<"AttributeError">>]}
         \cup {[ret |-> [articles |-> a]] : a \in SeqsUpTo(ArticlePool, MaxArticles)}

\* TwitterTool.execute: "error" is set only when no tweet is left;
\* _process_tweet raises on a malformed tweet.
TwitterOutcomes ==
  {[exc |-> <<"AttributeError">>]}
  \cup {[ret |-> [tweets |-> <<>>, error |-> <<"TweetScout API error">>]]}
  \cup {[ret |-> [tweets |-> t]] : t \in SeqsUpTo(TweetPool, MaxTweets)}

\* CryptoNewsTool.execute: never sets "error", always sets time_context
\* (hours_back is 24 for every query of the model).
TimeContext(q) == <<"Past ", "24", " hours">>

CryptoNewsOutcomes(q) ==
  {[exc |-> <<"AttributeError">>]}
  \cup {[ret |-> [articles |-> a, time_context |-> TimeContext(q)]] :
          a \in SeqsUpTo(ArticlePool, MaxArticles)}

\* DexscreenerTool.execute with only "query": no action, no trending
DexscreenerOutcomes ==
  {[ret |-> [error |-> <<"No valid Dexscreener parameters provided. Please specify a valid 'action' and required parameters.">>]]}

ToolOutcomes(name, q) ==
  CASE name = "crypto_search" -> CryptoSearchOutcomes(q)
    [] name = "twitter" -> TwitterOutcomes
    [] name = "crypto_news" -> CryptoNewsOutcomes(q)
    [] OTHER -> DexscreenerOutcomes

\* ------------------------------------------------------------ select_tools
\* TOOL_SELECTION_PROMPT.format(tools_needed=...): the first replacement
\* field of the template is {tool_descriptions}; str.format raises KeyError
\* on a field that no keyword argument supplies.
SelectionPromptFields == {"tool_descriptions"}

SelectionPromptKwargs == {"tools_needed"}

FormatSelectionPromptRaises == ~(SelectionPromptFields \subseteq SelectionPromptKwargs)

DefaultPair(q) ==
  [tag |-> "list",
   items |-> << [name |-> "crypto_search", custom_input |-> q],
                [name |-> "twitter", custom_input |-> q] >>]

\* Replies of the selection model: the call raising, a reply that is no JSON,
\* JSON that is no object, and objects with a tools_needed list.
SelectionInvocations ==
  { [name |-> n, custom_input |-> i] :
      n \in {"crypto_news", "crypto_search", "twitter", "dexscreener", "coingecko"},
      i \in {"refined input"} }

SelectionReplies ==
  {[kind |-> "exc"], [kind |-> "text"], [kind |-> "json_other"], [kind |-> "json", keys |-> {}]}
  \cup {[kind |-> "json", keys |-> {"tools_needed"}, tools_needed |-> t] :
          t \in SeqsUpTo(SelectionInvocations, MaxSelected)}

\* The replies the selection model is asked for: none when the prompt cannot
\* be built, because llm.invoke is then never reached.
SelectionRepliesDrawn ==
  IF FormatSelectionPromptRaises THEN {[kind |-> "not called"]} ELSE SelectionReplies

RECURSIVE ValidTools(_)
ValidTools(tools_needed) ==
  IF tools_needed = <<>> THEN <<>>
  ELSE IF IsRegistered(Head(tools_needed).name)
         THEN <<Head(tools_needed)>> \o ValidTools(Tail(tools_needed))
         ELSE ValidTools(Tail(tools_needed))

\* select_tools from llm.invoke on (lines 61-115): what is returned for a
\* reply. A list of invocations, or None where the function falls off its
\* end (JSONDecodeError branch); an exception of the call, or of .get on
\* JSON that is no object, reaches the outer handler.
select_tools_reply(q, reply) ==
  IF reply.kind = "exc" \/ reply.kind = "json_other"
    THEN DefaultPair(q)
  ELSE IF reply.kind = "text"
    THEN [tag |-> "None"]
  ELSE IF "tools_needed" \notin reply.keys \/ reply.tools_needed = <<>>
    THEN DefaultPair(q)
  ELSE [tag |-> "list", items |-> ValidTools(reply.tools_needed)]

\* The value select_tools returns: the prompt is built first (line 58), and
\* its KeyError reaches the outer handler before the model is asked.
select_tools(q, reply) ==
  IF FormatSelectionPromptRaises THEN DefaultPair(q) ELSE select_tools_reply(q, reply)

\* ------------------------------------------------------- synthesis replies
Sentiments == {"Bullish", "Bearish", "Neutral", "Mixed"}

PyList(items) == [tag |-> "list", items |-> items]

PyNone == [tag |-> "None"]

\* article_analysis entries: dicts, "significance" optional
MinerEntry == [title |-> <<"Miner selloff">>, significance |-> <<"Supply pressure.">>]

TweetEntry == [title |-> <<"Tweet by @">> \o <<"alice">>]

EtfEntry == [title |-> <<"ETF approved">>, significance |-> <<"Inflow of funds.">>]

\* article_analysis as the model may send it: null, or a list of entries
AnalysisValues ==
  {PyNone, PyList(<<>>), PyList(<<MinerEntry>>), PyList(<<TweetEntry, MinerEntry>>),
   PyList(<<TweetEntry, TweetEntry, TweetEntry, MinerEntry>>),
   PyList(<<EtfEntry, TweetEntry, MinerEntry, EtfEntry>>)}

\* The objects the synthesis model may send: no field is guaranteed, and
\* sentiment is whatever text the model wrote.
ReplyObjects ==
  {<<>>}
  \cup {[answer |-> <<"Analysis.">>, sentiment |-> "Bullish", trending_topics |-> <<"ETF">>,
         article_analysis |-> a] : a \in AnalysisValues}
  \cup {[answer |-> <<"Analysis.">>, sentiment |-> s] : s \in {"Bearish", "Very Bullish"}}

\* Prose replies, as word sequences
ReplyTexts ==
  { <<"Markets", "are", "quiet">>,
    <<"Outlook", "is", "BEARISH", "for", "now">>,
    <<"Bullish", "bounce", "in", "a", "bearish", "trend">> }

\* A reply: the ainvoke call raising, or content that is prose, a JSON object
\* or other JSON, bare or inside a Markdown fence (with or without the json tag).
SynthesisReplies ==
  {[kind |-> "exc"]}
  \cup {[kind |-> "text", fence |-> "none", words |-> w] : w \in ReplyTexts}
  \cup {[kind |-> "json_other", fence |-> "none"]}
  \cup {[kind |-> "json", fence |-> "none", object |-> o] : o \in ReplyObjects}
  \cup {[kind |-> "json", fence |-> f,
         object |-> [answer |-> <<"Analysis.">>, sentiment |-> "Bearish"]] :
          f \in {"json", "plain"}}
  \cup {[kind |-> "text", fence |-> "plain", words |-> <<"Signals", "are", "Mixed">>]}

\* word.lower()
Lower(w) ==
  CASE w = "BEARISH" -> "bearish"
    [] w = "Bearish" -> "bearish"
    [] w = "Bullish" -> "bullish"
    [] w = "Very Bullish" -> "very bullish"
    [] w = "Mixed" -> "mixed"
    [] OTHER -> w

\* keyword in text, for the texts of the model
HasSubstring(w, keyword) ==
  w = keyword \/ (w = "very bullish" /\ keyword = "bullish")

\* The text of a JSON object, as far as the keyword scan can tell: its
\* string values
ObjectWords(o) ==
  (IF "sentiment" \in DOMAIN o THEN <<o.sentiment>> ELSE <<>>) \o Get(o, "answer", <<>>)

\* response.content.strip(): the fence lines around the content ("[fence]"
\* stands for the three backquotes of a Markdown fence)
FenceOpen(f) == IF f = "json" THEN <<"[fence]json">> ELSE IF f = "plain" THEN <<"[fence]">> ELSE <<>>

FenceClose(f) == IF f = "none" THEN <<>> ELSE <<"[fence]">>

ReplyContent(reply) ==
  CASE reply.kind = "text" -> reply.words
    [] reply.kind = "json" -> ObjectWords(reply.object)
    [] OTHER -> <<"[]">>

ResponseText(reply) == FenceOpen(reply.fence) \o ReplyContent(reply) \o FenceClose(reply.fence)

\* keyword in response_text.lower()
TextContains(text, keyword) ==
  \E i \in 1..Len(text) : HasSubstring(Lower(text[i]), keyword)

\* ---------------------------------------------------------- response_utils
\* (variant: the "context" entry left out of the dict)
fallback_response_without_context(error_message, now) ==
  [query |-> "Crypto market analysis",
   answer |-> <<"I encountered an error: ">> \o error_message
              \o <<". However, I can still provide you with recent cryptocurrency news.">>,
   sentiment |-> "Neutral",
   trending_topics |-> <<"Bitcoin", "Ethereum", "Cryptocurrency">>,
   articles |-> <<>>,
   article_analysis |-> PyList(<<>>),
   processed_at |-> now]

fallback_response(error_message, now) ==
  [query |-> "Crypto market analysis",
   answer |-> <<"I encountered an error: ">> \o error_message
              \o <<". However, I can still provide you with recent cryptocurrency news.">>,
   sentiment |-> "Neutral",
   context |-> <<"Unable to analyze market sentiment due to an error.">>,
   trending_topics |-> <<"Bitcoin", "Ethereum", "Cryptocurrency">>,
   articles |-> <<>>,
   article_analysis |-> PyList(<<>>),
   processed_at |-> now]

\* (variant: the keywords looked for in response_text itself, not in its lower())
extract_info_case_sensitive(response_text, now) ==
  [query |-> "Crypto market analysis",
   answer |-> response_text,
   sentiment |-> IF \E i \in 1..Len(response_text) : HasSubstring(response_text[i], "bullish")
                   THEN "Bullish"
                 ELSE IF \E i \in 1..Len(response_text) : HasSubstring(response_text[i], "bearish")
                   THEN "Bearish"
                 ELSE IF \E i \in 1..Len(response_text) : HasSubstring(response_text[i], "mixed")
                   THEN "Mixed"
                 ELSE "Neutral",
   context |-> <<"Based on analysis of recent news.">>,
   trending_topics |-> <<"Bitcoin", "Ethereum", "Cryptocurrency", "Market Analysis", "Trading">>,
   article_analysis |-> PyList(<<>>),
   processed_at |-> now]

extract_info_from_text(response_text, now) ==
  [query |-> "Crypto market analysis",
   answer |-> response_text,
   sentiment |-> IF TextContains(response_text, "bullish") THEN "Bullish"
                 ELSE IF TextContains(response_text, "bearish") THEN "Bearish"
                 ELSE IF TextContains(response_text, "mixed") THEN "Mixed"
                 ELSE "Neutral",
   context |-> <<"Based on analysis of recent news.">>,
   trending_topics |-> <<"Bitcoin", "Ethereum", "Cryptocurrency", "Market Analysis", "Trading">>,
   article_analysis |-> PyList(<<>>),
   processed_at |-> now]

\* json.loads succeeds on what is left after the json-tagged fence prefix
\* and the fence suffix are cut: an untagged fence prefix is not cut.
JsonLoads(reply) ==
  IF reply.kind \in {"json", "json_other"} /\ reply.fence \in {"none", "json"}
    THEN [ret |-> reply]
    ELSE [exc |-> <<"JSONDecodeError">>]

\* (variant: no text extraction, a reply that is no JSON is a format error)
parse_llm_response_strict(reply, now) ==
  IF "exc" \in DOMAIN JsonLoads(reply) \/ reply.kind # "json"
    THEN fallback_response(<<"Response format error">>, now)
  ELSE reply.object

parse_llm_response(reply, now) ==
  IF "exc" \in DOMAIN JsonLoads(reply)
    THEN extract_info_from_text(ResponseText(reply), now)
  ELSE IF reply.kind # "json"
    THEN fallback_response(<<"Response format error">>, now)
  ELSE reply.object

\* ------------------------------------------------- _build_final_response
\* if "k" not in response: response["k"] = default, for the four keys
ensure_required_fields(response, q, now) ==
  LET r1 == IF "query" \in DOMAIN response THEN response ELSE DictPut(response, "query", q)
      r2 == IF "processed_at" \in DOMAIN r1 THEN r1 ELSE DictPut(r1, "processed_at", now)
      r3 == IF "articles" \in DOMAIN r2 THEN r2 ELSE DictPut(r2, "articles", <<>>)
  IN IF "article_analysis" \in DOMAIN r3 THEN r3
     ELSE DictPut(r3, "article_analysis", PyList(<<>>))

\* " ".join(context_parts)
RECURSIVE JoinWithSpace(_)
JoinWithSpace(parts) ==
  IF parts = <<>> THEN <<>>
  ELSE IF Len(parts) = 1 THEN Head(parts)
  ELSE Head(parts) \o <<" ">> \o JoinWithSpace(Tail(parts))

\* the significance values of the entries that have a non-empty one
RECURSIVE ContextParts(_)
ContextParts(entries) ==
  IF entries = <<>> THEN <<>>
  ELSE LET sig == Get(Head(entries), "significance", <<>>)
       IN (IF sig # <<>> THEN <<sig>> ELSE <<>>) \o ContextParts(Tail(entries))

\* (variant: every analysis entry read, not the first three)
BuildContextOfAllEntries(entries) ==
  LET parts == ContextParts(entries)
  IN IF parts # <<>> THEN JoinWithSpace(parts)
     ELSE <<"Based on analysis of recent cryptocurrency news.">>

BuildContext(entries) ==
  LET parts == ContextParts(PySliceTo(entries, 3))
  IN IF parts # <<>> THEN JoinWithSpace(parts)
     ELSE <<"Based on analysis of recent cryptocurrency news.">>

AnalysisTitles(entries) == [i \in 1..Len(entries) |-> Get(entries[i], "title", <<>>)]

\* (variant: a matching article put in front of those already taken)
RECURSIVE AddAnalyzedInFront(_, _, _, _)
AddAnalyzedInFront(articles, titles, min, acc) ==
  IF articles = <<>> THEN acc
  ELSE AddAnalyzedInFront(Tail(articles), titles, min,
         IF SeqContains(titles, Head(articles).title) /\ Len(acc) < min
           THEN <<Head(articles)>> \o acc ELSE acc)

\* first loop: articles whose title is an analysed title, while below min
RECURSIVE AddAnalyzed(_, _, _, _)
AddAnalyzed(articles, titles, min, acc) ==
  IF articles = <<>> THEN acc
  ELSE AddAnalyzed(Tail(articles), titles, min,
         IF SeqContains(titles, Head(articles).title) /\ Len(acc) < min
           THEN Append(acc, Head(articles)) ELSE acc)

\* second loop: articles not in return_articles (dict equality), while below min
RECURSIVE AddMore(_, _, _)
AddMore(articles, min, acc) ==
  IF articles = <<>> THEN acc
  ELSE AddMore(Tail(articles), min,
         IF ~SeqContains(acc, Head(articles)) /\ Len(acc) < min
           THEN Append(acc, Head(articles)) ELSE acc)

\* (variant: the length tests and the final slice lost, every article returned)
SelectArticlesUncapped(articles, entries, min) == articles

\* the two loops, then return_articles[:min_articles]
SelectArticles(articles, entries, min) ==
  LET analyzed == IF entries # <<>>
                    THEN AddAnalyzed(articles, AnalysisTitles(entries), min, <<>>)
                    ELSE <<>>
      filled == IF Len(analyzed) < min THEN AddMore(articles, min, analyzed) ELSE analyzed
  IN PySliceTo(filled, min)

\* [exc |-> ...] when article_analysis is not a list (None[:3] raises)
build_final_response(q, parsed_json, articles, min, now) ==
  LET article_analysis == Get(parsed_json, "article_analysis", PyList(<<>>))
  IN IF article_analysis.tag # "list"
       THEN [exc |-> <<"'NoneType' object is not subscriptable">>]
       ELSE [ret |-> ensure_required_fields(
              [query |-> q,
               answer |-> Get(parsed_json, "answer", <<"No analysis available.">>),
               sentiment |-> Get(parsed_json, "sentiment", "Neutral"),
               context |-> BuildContext(article_analysis.items),
               trending_topics |-> Get(parsed_json, "trending_topics",
                                       <<"Bitcoin", "Ethereum", "Cryptocurrency">>),
               articles |-> SelectArticles(articles, article_analysis.items, min),
               article_analysis |-> article_analysis,
               processed_at |-> now], q, now)]

\* ---------------------------------------------------------- process_query
VARIABLES
  query,              \* arguments of the call
  min_articles,
  additional_context,
  selection_reply,    \* what the selection model answers when it is asked
  selection_calls,    \* number of selection calls (llm.invoke)
  pc,                 \* where process_query stands
  selected_tools,     \* what select_tools returned
  tool_tasks,         \* the (tool_name, task) list; a task is pending or done
  awaited,            \* task indices in the order the await loop took them
  tool_responses,     \* insertion-ordered dict name -> result
  successful_tools,
  combined_data,
  calls,              \* tool calls made by the fallback chain, in order
  llm_calls,          \* number of synthesis calls (llm.ainvoke)
  llm_reply,          \* <<>>, then <<reply>> of the synthesis call
  overtaken,          \* a task completed while an earlier-listed one was pending
  caught,             \* exceptions caught by process_query's own handlers
  response,           \* <<>> until the call returns, then <<value>>
  clock,              \* datetime.now()
  redis_articles,     \* Redis: article key -> [value, expires]
  redis_last_update,  \* Redis: <<>> or <<the last-update marker>>
  writers,            \* the processes that write to the cache
  written,            \* per link, the last SET that succeeded: payload, time, ordinal
  redis_other,        \* Redis: search and data keys -> [value, expires]
  client              \* the RedisCache operation a caller made last, and its outcome

vars == <<query, min_articles, additional_context, selection_reply, selection_calls, pc, selected_tools, tool_tasks,
          awaited, tool_responses, successful_tools, combined_data,
          calls, llm_calls, llm_reply, overtaken, caught, response, clock,
          redis_articles, redis_last_update, writers, written, redis_other, client>>

cache_state == <<redis_articles, redis_last_update, writers, written, redis_other, client>>

inputs == <<query, min_articles, additional_context, selection_reply>>

\* the cache as process_query finds it: its contents reach the pipeline only
\* through the tool results
CacheUntouched ==
  /\ redis_articles = <<>>
  /\ redis_last_update = <<>>
  /\ writers = <<>>
  /\ written = <<>>
  /\ redis_other = <<>>
  /\ client = <<>>

EmptyCombined == [articles |-> <<>>, tweets |-> <<>>, time_context |-> <<"Recent news">>]

Init ==
  /\ query \in Queries
  /\ min_articles \in (0 - 1)..MaxMinArticles
  /\ additional_context \in AdditionalContexts
  /\ selection_reply \in SelectionRepliesDrawn
  /\ selection_calls = 0
  /\ pc = "select"
  /\ selected_tools = PyNone
  /\ tool_tasks = <<>>
  /\ awaited = <<>>
  /\ tool_responses = EmptyOrderedDict
  /\ successful_tools = <<>>
  /\ combined_data = EmptyCombined
  /\ calls = <<>>
  /\ llm_calls = 0
  /\ llm_reply = <<>>
  /\ overtaken = FALSE
  /\ caught = <<>>
  /\ response = <<>>
  /\ clock = 0
  /\ CacheUntouched

\* (variant: no handler, the exception leaves process_query and nothing is returned)
RaisePropagates(handler, message) ==
  /\ caught' = caught
  /\ response' = <<>>
  /\ pc' = "done"

\* The two handlers of process_query. "top": except Exception as e: return
\* _ensure_required_fields(fallback_response(str(e)), query); "parse": the
\* same with the message "Failed to process response: {e}".
Raise(handler, message) ==
  /\ caught' = Append(caught, [handler |-> handler, message |-> message])
  /\ response' = <<ensure_required_fields(
                     fallback_response(IF handler = "parse"
                                         THEN <<"Failed to process response: ">> \o message
                                         ELSE message, clock'), query, clock')>>
  /\ pc' = "done"

\* len(selected_tools) raises TypeError when select_tools returned None
UseSelection ==
  IF selected_tools'.tag = "None"
    THEN Raise("top", <<"object of type 'NoneType' has no len()">>)
    ELSE pc' = "dispatch" /\ UNCHANGED <<caught, response>>

\* selected_tools = await self.select_tools(query)
SelectTools ==
  /\ pc = "select"
  /\ clock' = clock + 1
  /\ selection_calls' = IF FormatSelectionPromptRaises THEN selection_calls
                        ELSE selection_calls + 1
  /\ selected_tools' = select_tools(query, selection_reply)
  /\ UseSelection
  /\ UNCHANGED <<inputs, cache_state, tool_tasks, awaited, tool_responses,
                 successful_tools, combined_data, calls, llm_calls, llm_reply, overtaken>>

\* (variant: only the first task is created ahead of the await loop)
TasksForFirstOnly(items, q) ==
  IF items = <<>> \/ ~IsRegistered(Head(items).name) THEN <<>>
  ELSE << [name |-> Head(items).name,
           input |-> Get(Head(items), "custom_input", q),
           state |-> "pending"] >>

\* one task per invocation that names a registered tool, none awaited yet
RECURSIVE TasksFor(_, _)
TasksFor(items, q) ==
  IF items = <<>> THEN <<>>
  ELSE (IF IsRegistered(Head(items).name)
          THEN << [name |-> Head(items).name,
                   input |-> Get(Head(items), "custom_input", q),
                   state |-> "pending"] >>
          ELSE <<>>) \o TasksFor(Tail(items), q)

CreateTasks ==
  /\ pc = "dispatch"
  /\ tool_tasks' = TasksFor(selected_tools.items, query)
  /\ pc' = IF tool_tasks' = <<>> THEN "merge" ELSE "await"
  /\ UNCHANGED <<inputs, cache_state, selection_calls, selected_tools, awaited, tool_responses,
                 successful_tools, combined_data, calls, llm_calls, llm_reply, overtaken, caught, response, clock>>

\* A created task runs while process_query is suspended in the await loop and
\* ends with a result or an exception, in any order relative to the others.
TaskComplete(i) ==
  /\ pc = "await"
  /\ tool_tasks[i].state = "pending"
  /\ \E outcome \in ToolOutcomes(tool_tasks[i].name, tool_tasks[i].input) :
       tool_tasks' = [tool_tasks EXCEPT ![i] =
                        [name |-> tool_tasks[i].name, input |-> tool_tasks[i].input,
                         state |-> "done", outcome |-> outcome]]
  /\ overtaken' = (overtaken \/ \E j \in 1..(i - 1) : tool_tasks[j].state = "pending")
  /\ UNCHANGED <<inputs, cache_state, selection_calls, pc, selected_tools, awaited, tool_responses, successful_tools,
                 combined_data, calls, llm_calls, llm_reply, caught, response, clock>>

\* (variant: the error test lost, every result is kept)
IsDiscardedNever(result) == FALSE

\* "error" in result and (not result.get("tweets", []) and not result.get("articles", []))
IsDiscarded(result) ==
  /\ "error" \in DOMAIN result
  /\ Get(result, "tweets", <<>>) = <<>>
  /\ Get(result, "articles", <<>>) = <<>>

\* (variant: the loop takes whichever unawaited task is done, as
\* asyncio.as_completed would)
AwaitedTaskAsCompleted(tasks, taken) ==
  IF \E i \in 1..Len(tasks) : tasks[i].state = "done" /\ ~SeqContains(taken, i)
    THEN CHOOSE i \in 1..Len(tasks) : tasks[i].state = "done" /\ ~SeqContains(taken, i)
    ELSE 0

\* for tool_name, task in tool_tasks: the k-th iteration awaits the k-th task
AwaitedTask(tasks, taken) == Len(taken) + 1

\* (variant: one try around the whole loop, the first exception ends it)
AfterTaskErrorAbort(tasks, taken) == "merge"

\* (variant: after the exception of the last task the loop is not left)
AfterTaskErrorStay(tasks, taken) == "await"

\* except Exception inside the loop body: the loop goes on with the next task
AfterTaskError(tasks, taken) == IF Len(taken) = Len(tasks) THEN "merge" ELSE "await"

AwaitTask ==
  /\ pc = "await"
  /\ Len(awaited) < Len(tool_tasks)
  /\ LET i == AwaitedTask(tool_tasks, awaited)
     IN /\ i \in 1..Len(tool_tasks)
        /\ tool_tasks[i].state = "done"
        /\ awaited' = Append(awaited, i)
        /\ LET o == tool_tasks[i].outcome
           IN IF "exc" \in DOMAIN o
                THEN /\ pc' = AfterTaskError(tool_tasks, awaited')
                     /\ UNCHANGED <<tool_responses, successful_tools>>
                ELSE /\ pc' = IF Len(awaited') = Len(tool_tasks) THEN "merge" ELSE "await"
                     /\ IF IsDiscarded(o.ret)
                          THEN UNCHANGED <<tool_responses, successful_tools>>
                          ELSE /\ tool_responses' =
                                    OrderedPut(tool_responses, tool_tasks[i].name, o.ret)
                               /\ successful_tools' = Append(successful_tools, tool_tasks[i].name)
  /\ clock' = clock + 1
  /\ UNCHANGED <<inputs, cache_state, selection_calls, selected_tools, tool_tasks, combined_data, calls,
                 llm_calls, llm_reply, overtaken, caught, response>>

\* (variant: the tweets kept, no article made of them)
MergeTweetsWithoutArticles(cd, tweets) == [cd EXCEPT !.tweets = @ \o tweets]

\* combined_data["tweets"].extend(tweets) and one article per tweet
MergeTweets(cd, tweets) ==
  [cd EXCEPT !.tweets = @ \o tweets, !.articles = @ \o TweetArticles(tweets)]

\* the body of "for tool_name, response in tool_responses.items()"
MergeOne(cd, result) ==
  LET a == IF "articles" \in DOMAIN result
             THEN [cd EXCEPT !.articles = @ \o result.articles] ELSE cd
      t == IF "tweets" \in DOMAIN result THEN MergeTweets(a, result.tweets) ELSE a
  IN IF "time_context" \in DOMAIN result
       THEN [t EXCEPT !.time_context = result.time_context] ELSE t

RECURSIVE MergeAll(_, _, _)
MergeAll(names, vals, cd) ==
  IF names = <<>> THEN cd
  ELSE MergeAll(Tail(names), vals, MergeOne(cd, vals[Head(names)]))

\* (variant: the results merged last-inserted first)
MergeOrderReversed(d) == [i \in 1..Len(d.keys) |-> d.keys[Len(d.keys) + 1 - i]]

\* tool_responses.items(): insertion order
MergeOrder(d) == d.keys

Merge ==
  /\ pc = "merge"
  /\ combined_data' = MergeAll(MergeOrder(tool_responses), tool_responses.vals, EmptyCombined)
  /\ pc' = "token_probe"
  /\ clock' = clock + 1
  /\ UNCHANGED <<inputs, cache_state, selection_calls, selected_tools, tool_tasks, awaited, tool_responses,
                 successful_tools, calls, llm_calls, llm_reply, overtaken, caught, response>>

\* ----------------------------------------------------------- fallback chain
\* token_name: the text before "token" in the lowered query, overridden by
\* additional_context["token_data"].get("token_name", ""); <<>> is None or "".
\* A token_data that is no dict has no get: AttributeError.
TokenName(q, ctx) ==
  IF HasTokenData(ctx)
    THEN IF ctx.token_data.tag = "dict"
           THEN [ret |-> ctx.token_data.token_name]
           ELSE [exc |-> <<"'str' object has no attribute 'get'">>]
    ELSE [ret |-> IF ContainsToken(q) THEN TokenPrefix(q) ELSE <<>>]

\* if token_name and "twitter" not in tool_responses
TokenProbeDue(token_name, responses) ==
  token_name # <<>> /\ ~OrderedHas(responses, "twitter")

\* (variant: the social retry made unconditionally)
GenericSocialAlways(cd, responses) == TRUE

\* if not combined_data["articles"] and "twitter" not in tool_responses
GenericSocialDue(cd, responses) ==
  cd.articles = <<>> /\ ~OrderedHas(responses, "twitter")

\* (variant: the emptiness test lost, the news retry made whenever
\* crypto_news has no entry)
GenericNewsWithoutEmptyTest(cd, responses) == ~OrderedHas(responses, "crypto_news")

\* (variant: the news retry decided by the tweets, not by the articles)
GenericNewsWhenNoTweets(cd, responses) ==
  cd.tweets = <<>> /\ ~OrderedHas(responses, "crypto_news")

\* if not combined_data["articles"] and "crypto_news" not in tool_responses
GenericNewsDue(cd, responses) ==
  cd.articles = <<>> /\ ~OrderedHas(responses, "crypto_news")

\* twitter_result = await twitter_tool.execute({"query": input}) and what
\* follows it; an exception leaves for process_query's handler
TwitterFallback(stage, input, next_pc) ==
  \E o \in TwitterOutcomes :
    /\ calls' = Append(calls, [stage |-> stage, tool |-> "twitter", input |-> input])
    /\ IF "exc" \in DOMAIN o
         THEN /\ Raise("top", o.exc)
              /\ UNCHANGED <<tool_responses, successful_tools, combined_data>>
         ELSE /\ IF "tweets" \in DOMAIN o.ret /\ o.ret.tweets # <<>>
                   THEN /\ combined_data' = MergeTweets(combined_data, o.ret.tweets)
                        /\ successful_tools' = Append(successful_tools, "twitter")
                        /\ tool_responses' = OrderedPut(tool_responses, "twitter", o.ret)
                   ELSE UNCHANGED <<tool_responses, successful_tools, combined_data>>
              /\ pc' = next_pc
              /\ UNCHANGED <<caught, response>>

SkipTo(next_pc) ==
  /\ pc' = next_pc
  /\ UNCHANGED <<tool_responses, successful_tools, combined_data, calls, caught, response>>

TokenProbe ==
  /\ pc = "token_probe"
  /\ clock' = clock + 1
  /\ IF combined_data.articles # <<>>
       THEN SkipTo("social")
       ELSE LET token_name == TokenName(query, additional_context)
            IN IF "exc" \in DOMAIN token_name
                 THEN /\ Raise("top", token_name.exc)
                      /\ UNCHANGED <<tool_responses, successful_tools, combined_data, calls>>
               ELSE IF TokenProbeDue(token_name.ret, tool_responses)
                 THEN TwitterFallback("token_probe",
                                      token_name.ret \o <<" token cryptocurrency">>, "social")
               ELSE SkipTo("social")
  /\ UNCHANGED <<inputs, cache_state, selection_calls, selected_tools, tool_tasks, awaited, llm_calls, llm_reply, overtaken>>

SocialFallback ==
  /\ pc = "social"
  /\ clock' = clock + 1
  /\ IF GenericSocialDue(combined_data, tool_responses)
       THEN TwitterFallback("generic_social", <<query>>, "news")
       ELSE SkipTo("news")
  /\ UNCHANGED <<inputs, cache_state, selection_calls, selected_tools, tool_tasks, awaited, llm_calls, llm_reply, overtaken>>

NewsFallback ==
  /\ pc = "news"
  /\ clock' = clock + 1
  /\ IF GenericNewsDue(combined_data, tool_responses)
       THEN \E o \in CryptoNewsOutcomes(query) :
              /\ calls' = Append(calls, [stage |-> "generic_news", tool |-> "crypto_news",
                                         input |-> <<query>>])
              /\ IF "exc" \in DOMAIN o
                   THEN /\ Raise("top", o.exc)
                        /\ UNCHANGED <<tool_responses, successful_tools, combined_data>>
                   ELSE /\ IF "articles" \in DOMAIN o.ret /\ o.ret.articles # <<>>
                             THEN /\ tool_responses' = OrderedPut(tool_responses, "crypto_news", o.ret)
                                  /\ combined_data' =
                                       [combined_data EXCEPT !.articles = @ \o o.ret.articles]
                                  /\ successful_tools' = Append(successful_tools, "crypto_news")
                             ELSE UNCHANGED <<tool_responses, successful_tools, combined_data>>
                        /\ pc' = "final"
                        /\ UNCHANGED <<caught, response>>
       ELSE SkipTo("final")
  /\ UNCHANGED <<inputs, cache_state, selection_calls, selected_tools, tool_tasks, awaited, llm_calls, llm_reply, overtaken>>

\* -------------------------------------------------- exhaustion and synthesis
NoDataMessage == <<"No relevant articles or tweets found for your query">>

\* (variant: the emptiness check lost, the model is asked about no article)
IsExhaustedNever(cd) == FALSE

\* (variant: the data counted as missing when there is no tweet)
IsExhaustedWithoutTweets(cd) == cd.tweets = <<>>

\* if not combined_data["articles"]
IsExhausted(cd) == cd.articles = <<>>

Exhausted ==
  /\ pc = "final"
  /\ IsExhausted(combined_data)
  /\ clock' = clock + 1
  /\ response' = <<ensure_required_fields(fallback_response(NoDataMessage, clock'), query, clock')>>
  /\ pc' = "done"
  /\ UNCHANGED <<inputs, cache_state, selection_calls, selected_tools, tool_tasks, awaited, tool_responses,
                 successful_tools, combined_data, calls, llm_calls, llm_reply, overtaken, caught>>

\* response = await self.llm.ainvoke(messages), parse_llm_response,
\* _build_final_response; the inner handler catches what the last two raise
Synthesize ==
  /\ pc = "final"
  /\ ~IsExhausted(combined_data)
  /\ clock' = clock + 1
  /\ llm_calls' = llm_calls + 1
  /\ \E reply \in SynthesisReplies :
       /\ llm_reply' = <<reply>>
       /\ IF reply.kind = "exc"
         THEN Raise("top", <<"ResourceExhausted">>)
         ELSE LET built == build_final_response(query, parse_llm_response(reply, clock'),
                                                combined_data.articles, min_articles, clock')
              IN IF "exc" \in DOMAIN built
                   THEN Raise("parse", built.exc)
                   ELSE /\ response' = <<built.ret>>
                        /\ pc' = "done"
                        /\ UNCHANGED caught
  /\ UNCHANGED <<inputs, cache_state, selection_calls, selected_tools, tool_tasks, awaited, tool_responses,
                 successful_tools, combined_data, calls, overtaken>>

Next ==
  \/ SelectTools
  \/ CreateTasks
  \/ \E i \in 1..Len(tool_tasks) : TaskComplete(i)
  \/ AwaitTask
  \/ Merge
  \/ TokenProbe
  \/ SocialFallback
  \/ NewsFallback
  \/ Exhausted
  \/ Synthesize

Spec == Init /\ [][Next]_vars

\* process_query when every call it waits for returns and the event loop
\* runs every coroutine that can run: no step that is possible is put off
\* for ever.
LiveSpec == Init /\ [][Next]_vars /\ WF_vars(Next)

\* ------------------------------------------------- select_tools on its own
\* min_articles: int = 3
DefaultMinArticles == 3

\* The selection method taken alone, for every answer of the selection model:
\* entered at its top ("select"), or at line 65 where llm.invoke has just
\* returned or raised ("select_reply").
InitSelect ==
  /\ query \in Queries
  /\ min_articles = DefaultMinArticles
  /\ additional_context = [tag |-> "None"]
  /\ selection_reply \in SelectionReplies
  /\ pc \in {"select", "select_reply"}
  /\ selection_calls = IF pc = "select_reply" THEN 1 ELSE 0
  /\ selected_tools = PyNone
  /\ tool_tasks = <<>>
  /\ awaited = <<>>
  /\ tool_responses = EmptyOrderedDict
  /\ successful_tools = <<>>
  /\ combined_data = EmptyCombined
  /\ calls = <<>>
  /\ llm_calls = 0
  /\ llm_reply = <<>>
  /\ overtaken = FALSE
  /\ caught = <<>>
  /\ response = <<>>
  /\ clock = 0
  /\ CacheUntouched

\* lines 65-115 of select_tools, then the return into process_query
HandleSelectionReply ==
  /\ pc = "select_reply"
  /\ clock' = clock + 1
  /\ selected_tools' = select_tools_reply(query, selection_reply)
  /\ UseSelection
  /\ UNCHANGED <<inputs, cache_state, selection_calls, tool_tasks, awaited, tool_responses,
                 successful_tools, combined_data, calls, llm_calls, llm_reply, overtaken>>

NextSelect ==
  \/ SelectTools
  \/ HandleSelectionReply
  \/ CreateTasks

SelectSpec == InitSelect /\ [][NextSelect]_vars

\* ------------------------------------------- dispatch of a dexscreener task
\* Selections that name dexscreener, alone and beside another tool
DexscreenerSelections ==
  LET inv(n) == [name |-> n, custom_input |-> "refined input"]
  IN { <<inv("dexscreener")>>,
       <<inv("dexscreener"), inv("twitter")>>,
       <<inv("crypto_search"), inv("dexscreener")>>,
       <<inv("crypto_news"), inv("dexscreener")>> }

\* process_query from the point where the selection model has answered with
\* one of these selections, up to the merge of the primary results.
InitDispatch ==
  /\ query \in Queries
  /\ min_articles = DefaultMinArticles
  /\ additional_context = [tag |-> "None"]
  /\ selection_reply \in {[kind |-> "json", keys |-> {"tools_needed"}, tools_needed |-> t] :
                            t \in DexscreenerSelections}
  /\ pc = "select_reply"
  /\ selection_calls = 1
  /\ selected_tools = PyNone
  /\ tool_tasks = <<>>
  /\ awaited = <<>>
  /\ tool_responses = EmptyOrderedDict
  /\ successful_tools = <<>>
  /\ combined_data = EmptyCombined
  /\ calls = <<>>
  /\ llm_calls = 0
  /\ llm_reply = <<>>
  /\ overtaken = FALSE
  /\ caught = <<>>
  /\ response = <<>>
  /\ clock = 0
  /\ CacheUntouched

NextDispatch ==
  \/ HandleSelectionReply
  \/ CreateTasks
  \/ \E i \in 1..Len(tool_tasks) : TaskComplete(i)
  \/ AwaitTask
  \/ Merge

DispatchSpec == InitDispatch /\ [][NextDispatch]_vars

\* --------------------------------------------------------------- RedisCache
\* Time is counted in one unit for the record lifetime (self.ttl), the
\* refresh interval (CRON_INTERVAL) and the ages asked about; both numbers
\* come from the environment (config.py), small values stand for them.
CACHE_TTL == 2

CRON_INTERVAL == 2

\* Articles as the news API hands them over: two links, two versions of the
\* first article, an article without "link", one with an empty link and one
\* whose link is a number.
FirstArticle == [link |-> "https://n/1", body |-> "v1"]

FirstArticleRevised == [link |-> "https://n/1", body |-> "v2"]

SecondArticle == [link |-> "https://n/2", body |-> "v1"]

ArticleWithoutLink == [body |-> "v1"]

ArticleWithEmptyLink == [link |-> "", body |-> "v1"]

ArticleWithNumberAsLink == [link |-> "12345", link_type |-> "int", body |-> "v1"]

\* what fetch_articles returns: [] on any failure
FetchedBatches ==
  { <<>>,
    <<FirstArticle>>,
    <<FirstArticle, SecondArticle>>,
    <<FirstArticleRevised, ArticleWithoutLink>>,
    <<SecondArticle, ArticleWithEmptyLink, FirstArticle>>,
    <<SecondArticle, ArticleWithNumberAsLink, FirstArticle>> }

\* hashlib.md5(article_id.encode()).hexdigest(): one digest per link of the model
Md5(link) ==
  CASE link = "https://n/1" -> "c7a1"
    [] link = "https://n/2" -> "09be"
    [] link = "https://n/3" -> "3f5a"
    [] link = "https://n/4" -> "a8c2"
    [] link = "https://n/5" -> "e01b"
    [] link = "https://n/6" -> "77d0"
    [] link = "https://n/7" -> "5b9e"
    [] link = "https://n/8" -> "c4f6"
    [] OTHER -> "d41d"

\* (variant: the digest left out of the key, every article under news_key)
ArticleKeyWithoutDigest(link) == <<"crypto:news:articles">>

\* f"{self.news_key}:{article_hash}"
ArticleKey(link) == <<"crypto:news:articles", ":", Md5(link)>>

\* json.dumps(article) and json.loads of it
JsonDumps(article) == <<"json", article>>

JsonParse(value) == value[2]

\* The processes holding a RedisCache: the API process (agent) and the
\* scheduler (cron.py, main.py); their Redis commands interleave.
Writers == {"agent", "cron"}

IdleWriter == [state |-> "idle", op |-> "none", batch |-> <<>>, idx |-> 1,
               raised |-> FALSE, result |-> "none", at |-> 0, stale |-> "none"]

\* A Redis command answers or raises (connection lost)
RedisAnswers == {TRUE, FALSE}

\* (variant: a read that raised counts as a marker written just now)
get_last_update_time_now_on_failure(answers) == IF answers THEN redis_last_update ELSE <<clock>>

\* get_last_update_time: None when there is no marker or the read raised
get_last_update_time(answers) == IF answers THEN redis_last_update ELSE <<>>

\* def get_articles(self, limit: int = 100, hours_back=None)
DefaultLimit == 100

\* redis_client.keys(pattern): the article keys, in an order Redis chooses
KeyOrders ==
  LET n == Cardinality(DOMAIN redis_articles)
  IN {ks \in [1..n -> DOMAIN redis_articles] : \A i, j \in 1..n : ks[i] = ks[j] => i = j}

\* The "published" values of the model: ISO texts without zone (naive) and
\* with a Z suffix, a text that is no timestamp, null and a number; a text is
\* [tag "str"] with the rank it has in the order of Python strings ("" lowest,
\* the ISO texts by their time, a word above every digit).
Published(time, zone) == [tag |-> "str", form |-> "iso", zone |-> zone, time |-> time]

PublishedGarbled == [tag |-> "str", form |-> "text"]

PublishedNull == [tag |-> "None"]

PublishedNumber == [tag |-> "int", value |-> 1700000000]

\* the hours_back filter, lines 52-59: continue when pub_date < cutoff_time
\* (hours_back is <<>> for None, <<h>> for a number).
\* article.get("published").replace raises AttributeError on None and on a
\* number, fromisoformat raises ValueError on a text that is no timestamp,
\* and a Z timestamp gives an aware datetime whose comparison with the naive
\* cutoff raises TypeError: all three are passed over, the article is kept.
DroppedByAge(article, hours_back, now) ==
  /\ hours_back # <<>>
  /\ "published" \in DOMAIN article
  /\ article.published.tag = "str"
  /\ article.published.form = "iso"
  /\ article.published.zone = "naive"
  /\ article.published.time < now - hours_back[1]

\* key=lambda x: x.get("published", "")
SortKey(article) == Get(article, "published", [tag |-> "str", form |-> "empty"])

SortRank(k) ==
  CASE k.tag = "int" -> k.value
    [] k.tag = "None" -> 0
    [] k.form = "empty" -> 0 - 1000
    [] k.form = "iso" -> k.time
    [] OTHER -> 1000

\* list.sort compares every element with another one: TypeError when two
\* keys are of different types, or both None
SortRaises(articles) ==
  \E i, j \in 1..Len(articles) :
    /\ i < j
    /\ (SortKey(articles[i]).tag # SortKey(articles[j]).tag \/ SortKey(articles[i]).tag = "None")

\* sort(reverse=True) is stable: equal keys stay in their order
RECURSIVE InsertDescending(_, _)
InsertDescending(article, sorted) ==
  IF sorted = <<>> THEN <<article>>
  ELSE IF SortRank(SortKey(Head(sorted))) >= SortRank(SortKey(article))
    THEN <<Head(sorted)>> \o InsertDescending(article, Tail(sorted))
  ELSE <<article>> \o sorted

RECURSIVE SortDescending(_, _)
SortDescending(articles, sorted) ==
  IF articles = <<>> THEN sorted
  ELSE SortDescending(Tail(articles), InsertDescending(Head(articles), sorted))

\* get_articles: the records read key by key (the order of keys() given),
\* filtered by age, sorted by "published" and cut to limit; [] when a Redis
\* command raises and when the sort raises (outer handler, lines 66-68)
get_articles(answers, keys, limit, hours_back) ==
  IF ~answers THEN <<>>
  ELSE LET all == [i \in 1..Len(keys) |-> JsonParse(redis_articles[keys[i]].value)]
           kept == SelectSeq(all, LAMBDA a : ~DroppedByAge(a, hours_back, clock))
       IN IF SortRaises(kept) THEN <<>>
          ELSE PySliceTo(SortDescending(kept, <<>>), limit)

\* (variant: the comparison turned round)
is_cache_stale_reversed(last_update, now, max_age_minutes) ==
  IF last_update = <<>> THEN TRUE ELSE (now - last_update[1]) < max_age_minutes

\* is_cache_stale: age > timedelta(minutes=max_age_minutes)
is_cache_stale(last_update, now, max_age_minutes) ==
  IF last_update = <<>> THEN TRUE ELSE (now - last_update[1]) > max_age_minutes

InitCache ==
  /\ query = ""
  /\ min_articles = DefaultMinArticles
  /\ additional_context = [tag |-> "None"]
  /\ selection_reply \in SelectionRepliesDrawn
  /\ selection_calls = 0
  /\ pc = "idle"
  /\ selected_tools = PyNone
  /\ tool_tasks = <<>>
  /\ awaited = <<>>
  /\ tool_responses = EmptyOrderedDict
  /\ successful_tools = <<>>
  /\ combined_data = EmptyCombined
  /\ calls = <<>>
  /\ llm_calls = 0
  /\ llm_reply = <<>>
  /\ overtaken = FALSE
  /\ caught = <<>>
  /\ response = <<>>
  /\ clock = 0
  /\ redis_articles = <<>>
  /\ redis_last_update = <<>>
  /\ writers = [w \in Writers |-> IdleWriter]
  /\ written = <<>>
  /\ redis_other = <<>>
  /\ client = <<>>

pipeline == <<inputs, selection_calls, pc, selected_tools, tool_tasks, awaited,
              tool_responses, successful_tools, combined_data, calls, llm_calls,
              llm_reply, overtaken, caught, response>>

\* what the bulk writers leave alone: the search and data keys, and the
\* caller of the single-key operations
other_keys == <<redis_other, client>>

\* set_articles(batch) entered by writer w on behalf of op; stale is what
\* is_cache_stale answered to op before ("none": not asked by op itself)
EnterSetArticles(w, op, batch, stale) ==
  writers' = [writers EXCEPT ![w] =
                [state |-> "storing", op |-> op, batch |-> batch, idx |-> 1,
                 raised |-> FALSE, result |-> "none", at |-> clock, stale |-> stale]]

Return(w, op, result, stale) ==
  writers' = [writers EXCEPT ![w] =
                [state |-> "returned", op |-> op, batch |-> <<>>, idx |-> 1,
                 raised |-> FALSE, result |-> result, at |-> clock, stale |-> stale]]

\* CryptoNewsTool.update_cache up to its call of set_articles
UpdateCache(w) ==
  /\ writers[w].state = "idle"
  /\ \E answers \in RedisAnswers :
       LET stale == is_cache_stale(get_last_update_time(answers), clock, CRON_INTERVAL)
       IN IF ~stale
            THEN Return(w, "update_cache", "True", stale)
            ELSE \E batch \in FetchedBatches :
                   IF batch = <<>> THEN Return(w, "update_cache", "False", stale)
                   ELSE EnterSetArticles(w, "update_cache", batch, stale)
  /\ UNCHANGED <<pipeline, other_keys, clock, redis_articles, redis_last_update, written>>

\* CryptoNewsTool.execute lines 89-95: get_articles came back empty (no
\* record, or the read raised), the fetched articles are stored directly
ExecuteStoresFetched(w) ==
  /\ w = "agent"
  /\ writers[w].state = "idle"
  /\ \E batch \in FetchedBatches \ {<<>>} : EnterSetArticles(w, "execute", batch, "none")
  /\ UNCHANGED <<pipeline, other_keys, clock, redis_articles, redis_last_update, written>>

\* the exception handler of set_articles: the rest of the batch and the
\* marker are skipped, the caller goes on
SetArticlesRaised(w) ==
  writers' = [writers EXCEPT ![w].state = "returned", ![w].raised = TRUE,
                             ![w].result = IF writers[w].op = "update_cache" THEN "True" ELSE "none",
                             ![w].at = clock]

NextInBatch(w) ==
  writers' = [writers EXCEPT ![w].idx = @ + 1,
                             ![w].state = IF writers[w].idx = Len(writers[w].batch)
                                            THEN "marking" ELSE "storing"]

\* one iteration of "for article in articles"
StoreArticle(w) ==
  /\ writers[w].state = "storing"
  /\ LET article == writers[w].batch[writers[w].idx]
         link == Get(article, "link", "")
     IN IF link = ""
          THEN NextInBatch(w) /\ UNCHANGED <<redis_articles, written>>
        ELSE IF "link_type" \in DOMAIN article
          THEN SetArticlesRaised(w) /\ UNCHANGED <<redis_articles, written>>
        ELSE \E answers \in RedisAnswers :
               IF answers
                 THEN /\ redis_articles' =
                           DictPut(redis_articles, ArticleKey(link),
                                   [value |-> JsonDumps(article), expires |-> clock + CACHE_TTL])
                      /\ written' =
                           DictPut(written, link,
                                   [payload |-> article, at |-> clock,
                                    ordinal |-> Get(written, link, [ordinal |-> 0]).ordinal + 1])
                      /\ NextInBatch(w)
                 ELSE SetArticlesRaised(w) /\ UNCHANGED <<redis_articles, written>>
  /\ UNCHANGED <<pipeline, other_keys, clock, redis_last_update>>

\* self.redis_client.set(self.last_update_key, datetime.now().isoformat())
WriteMarker(w) ==
  /\ writers[w].state = "marking"
  /\ \E answers \in RedisAnswers :
       IF answers
         THEN /\ redis_last_update' = <<clock>>
              /\ writers' = [writers EXCEPT ![w].state = "returned", ![w].at = clock,
                                            ![w].result = IF writers[w].op = "update_cache"
                                                            THEN "True" ELSE "none"]
         ELSE SetArticlesRaised(w) /\ UNCHANGED redis_last_update
  /\ UNCHANGED <<pipeline, other_keys, clock, redis_articles, written>>

\* time passes; Redis drops a record once its lifetime is over
Tick ==
  /\ clock < MaxClock
  /\ clock' = clock + 1
  /\ redis_articles' = [k \in {x \in DOMAIN redis_articles : redis_articles[x].expires > clock + 1}
                          |-> redis_articles[k]]
  /\ redis_other' = [k \in {x \in DOMAIN redis_other : redis_other[x].expires > clock + 1}
                       |-> redis_other[k]]
  /\ UNCHANGED <<pipeline, redis_last_update, writers, written, client>>

NextCache ==
  \/ \E w \in Writers : UpdateCache(w)
  \/ \E w \in Writers : ExecuteStoresFetched(w)
  \/ \E w \in Writers : StoreArticle(w)
  \/ \E w \in Writers : WriteMarker(w)
  \/ Tick

CacheSpec == InitCache /\ [][NextCache]_vars

\* ------------------------------------------- RedisCache, operation by operation
\* f"{self.search_key_prefix}{query}", f"{self.data_key_prefix}{key}" and
\* self.last_update_key, as the texts they are made of
SearchKey(q) == <<"crypto:news:search:", q>>

\* (variant: the data key used as it comes, without the prefix)
DataKeyWithoutPrefix(key) == <<key>>

DataKey(key) == <<"crypto:data:", key>>

LastUpdateKey == <<"crypto:news:last_update">>

\* redis_client.set(key, value, ex=lifetime) on a key that is no article key
RedisSet(key, value, lifetime) ==
  IF key = LastUpdateKey
    THEN redis_last_update' = <<value>> /\ UNCHANGED redis_other
    ELSE /\ redis_other' = DictPut(redis_other, key,
                                   [value |-> value, expires |-> clock + lifetime])
         /\ UNCHANGED redis_last_update

\* Records found in the cache, stored by earlier runs: each with its own link
\* and one of the "published" values, or none.
RecentArticle == [link |-> "https://n/3", published |-> Published(0, "naive")]

OldArticle == [link |-> "https://n/4", published |-> Published(0 - 5, "naive")]

OldZuluArticle == [link |-> "https://n/5", published |-> Published(0 - 5, "Z")]

GarbledDateArticle == [link |-> "https://n/6", published |-> PublishedGarbled]

NullDateArticle == [link |-> "https://n/7", published |-> PublishedNull]

NumberDateArticle == [link |-> "https://n/8", published |-> PublishedNumber]

MissingDateArticle == [link |-> "https://n/1"]

StoredArticles ==
  {RecentArticle, OldArticle, OldZuluArticle, GarbledDateArticle, NullDateArticle,
   NumberDateArticle, MissingDateArticle}

MaxStored == 2

StoredSets == {S \in SUBSET StoredArticles : Cardinality(S) <= MaxStored}

StoredRecords(articles) ==
  [k \in {ArticleKey(a.link) : a \in articles} |->
     [value |-> JsonDumps(CHOOSE a \in articles : ArticleKey(a.link) = k),
      expires |-> CACHE_TTL]]

\* arguments of the calls
SearchQueries == {"bitcoin"}

SearchResults == {<<FirstArticle>>}

DataKeys == {"crypto:news:last_update"}

DataValues == {[tweets |-> <<>>]}

\* ttl: 0 stands for None and for 0, "ttl or self.ttl" takes both alike
Lifetimes == {0, 1}

Limits == {1, DefaultLimit}

HoursBack == {<<>>, <<1>>}

\* The variables of process_query, which the cache operations leave alone
PipelineIdle ==
  /\ query = ""
  /\ min_articles = DefaultMinArticles
  /\ additional_context = [tag |-> "None"]
  /\ selection_reply \in SelectionRepliesDrawn
  /\ selection_calls = 0
  /\ pc = "idle"
  /\ selected_tools = PyNone
  /\ tool_tasks = <<>>
  /\ awaited = <<>>
  /\ tool_responses = EmptyOrderedDict
  /\ successful_tools = <<>>
  /\ combined_data = EmptyCombined
  /\ calls = <<>>
  /\ llm_calls = 0
  /\ llm_reply = <<>>
  /\ overtaken = FALSE
  /\ caught = <<>>
  /\ response = <<>>

\* One process with a RedisCache on an empty store; it makes its calls one
\* after the other.
InitOps ==
  /\ PipelineIdle
  /\ clock = 0
  /\ redis_articles = <<>>
  /\ redis_last_update = <<>>
  /\ writers = [w \in {"agent"} |-> IdleWriter]
  /\ written = <<>>
  /\ redis_other = <<>>
  /\ client = <<>>

\* A reader of a cache that holds what earlier runs left in it
InitRead ==
  /\ PipelineIdle
  /\ clock = 0
  /\ \E articles \in StoredSets : redis_articles = StoredRecords(articles)
  /\ redis_last_update = <<>>
  /\ writers = <<>>
  /\ written = <<>>
  /\ redis_other = <<>>
  /\ client = <<>>

\* the caller has the value (or the exception) of the call it made with
\* args; failed: the Redis command of the call raised
Called(op, args, failed, outcome) ==
  client' = <<[op |-> op, args |-> args, failed |-> failed, outcome |-> outcome]>>

bulk_state == <<redis_articles, writers, written>>

\* set_search_results(query, results)
SetSearchResults ==
  /\ \E q \in SearchQueries, results \in SearchResults, answers \in RedisAnswers :
       /\ IF answers
            THEN RedisSet(SearchKey(q), JsonDumps(results), CACHE_TTL)
            ELSE UNCHANGED <<redis_other, redis_last_update>>
       /\ Called("set_search_results", [query |-> q], ~answers, [ret |-> PyNone])
  /\ UNCHANGED <<pipeline, clock, bulk_state>>

\* (variant: no handler, the exception of the Redis command leaves the method)
get_search_results_unguarded(answers, q) ==
  IF ~answers THEN [exc |-> <<"ConnectionError">>]
  ELSE IF SearchKey(q) \in DOMAIN redis_other
    THEN [ret |-> JsonParse(redis_other[SearchKey(q)].value)]
  ELSE [ret |-> <<>>]

\* get_search_results(query): [] when nothing is stored and when the read raised
get_search_results(answers, q) ==
  IF answers /\ SearchKey(q) \in DOMAIN redis_other
    THEN [ret |-> JsonParse(redis_other[SearchKey(q)].value)]
    ELSE [ret |-> <<>>]

GetSearchResults ==
  /\ \E q \in SearchQueries, answers \in RedisAnswers :
       Called("get_search_results", [query |-> q], ~answers, get_search_results(answers, q))
  /\ UNCHANGED <<pipeline, clock, bulk_state, redis_other, redis_last_update>>

\* set_data(key, data, ttl): ex=ttl or self.ttl
SetData ==
  /\ \E key \in DataKeys, data \in DataValues, ttl \in Lifetimes, answers \in RedisAnswers :
       /\ IF answers
            THEN RedisSet(DataKey(key), JsonDumps(data), IF ttl = 0 THEN CACHE_TTL ELSE ttl)
            ELSE UNCHANGED <<redis_other, redis_last_update>>
       /\ Called("set_data", [key |-> key, ttl |-> ttl], ~answers, [ret |-> PyNone])
  /\ UNCHANGED <<pipeline, clock, bulk_state>>

\* get_data(key): None when nothing is stored and when the read raised
get_data(answers, key) ==
  IF answers /\ DataKey(key) \in DOMAIN redis_other
    THEN [ret |-> JsonParse(redis_other[DataKey(key)].value)]
    ELSE [ret |-> PyNone]

GetData ==
  /\ \E key \in DataKeys, answers \in RedisAnswers :
       Called("get_data", [key |-> key], ~answers, get_data(answers, key))
  /\ UNCHANGED <<pipeline, clock, bulk_state, redis_other, redis_last_update>>

\* get_articles(limit, hours_back)
GetArticles ==
  /\ \E answers \in RedisAnswers, keys \in KeyOrders, limit \in Limits, hours_back \in HoursBack :
       Called("get_articles", [limit |-> limit, hours_back |-> hours_back], ~answers,
              [ret |-> get_articles(answers, keys, limit, hours_back)])
  /\ UNCHANGED <<pipeline, clock, bulk_state, redis_other, redis_last_update>>

\* is_cache_stale(max_age_minutes)
IsCacheStale ==
  /\ \E answers \in RedisAnswers, m \in 1..MaxAge :
       Called("is_cache_stale", [max_age_minutes |-> m], ~answers,
              [ret |-> is_cache_stale(get_last_update_time(answers), clock, m)])
  /\ UNCHANGED <<pipeline, clock, bulk_state, redis_other, redis_last_update>>

\* set_articles(articles) called on a batch of two
SetArticles(w) ==
  /\ writers[w].state = "idle"
  /\ EnterSetArticles(w, "set_articles", <<FirstArticle, SecondArticle>>, "none")
  /\ UNCHANGED <<pipeline, other_keys, clock, redis_articles, redis_last_update, written>>

\* the caller is not inside set_articles
BetweenCalls == \A w \in DOMAIN writers : writers[w].state # "storing" /\ writers[w].state # "marking"

NextOps ==
  \/ \E w \in DOMAIN writers : SetArticles(w)
  \/ \E w \in DOMAIN writers : StoreArticle(w)
  \/ \E w \in DOMAIN writers : WriteMarker(w)
  \/ BetweenCalls /\ SetSearchResults
  \/ BetweenCalls /\ GetSearchResults
  \/ BetweenCalls /\ SetData
  \/ BetweenCalls /\ GetData
  \/ BetweenCalls /\ GetArticles
  \/ BetweenCalls /\ IsCacheStale
  \/ Tick

OpsSpec == InitOps /\ [][NextOps]_vars

NextRead ==
  \/ GetArticles
  \/ Tick

ReadSpec == InitRead /\ [][NextRead]_vars

\* ------------------------------------------------------------------ claims
Returned == pc = "done" /\ Len(response) = 1

RequiredFields ==
  {"query", "answer", "sentiment", "context", "trending_topics", "articles",
   "article_analysis", "processed_at"}

\* text contains part as a contiguous run of pieces
Embeds(text, part) ==
  \E i \in 1..(Len(text) + 1) :
    i + Len(part) - 1 <= Len(text) /\ SubSeq(text, i, i + Len(part) - 1) = part

PastAwait == pc \in {"merge", "token_probe", "social", "news", "final", "done"}

PastMerge == pc \in {"token_probe", "social", "news", "final", "done"}

\* the synthesis reply was parsed as a JSON object and a response built from it
SynthesisSucceeded ==
  /\ pc = "done" /\ llm_calls = 1 /\ caught = <<>>
  /\ llm_reply[1].kind = "json" /\ llm_reply[1].fence # "plain"

\* C1: every value process_query returns (after synthesis, after a parse
\* failure, after exhaustion, after an exception) has all eight fields.
C1_AllFieldsPresent ==
  pc = "done" => Len(response) = 1 /\ RequiredFields \subseteq DOMAIN response[1]

\* C1 witness: a value returned by the handler of a failed normalisation.
C1_Witness ==
  /\ Returned
  /\ caught # <<>> /\ caught[1].handler = "parse"
  /\ RequiredFields \subseteq DOMAIN response[1]

\* C2: process_query always returns a value; when one of its handlers caught
\* an exception the value has the canonical fallback shape: no article,
\* sentiment Neutral, and the exception's message inside the answer.
C2_NoExceptionEscapes ==
  pc = "done" =>
    /\ Len(response) = 1
    /\ caught # <<>> =>
         /\ response[1].articles = <<>>
         /\ response[1].sentiment = "Neutral"
         /\ response[1].article_analysis = PyList(<<>>)
         /\ response[1].context = <<"Unable to analyze market sentiment due to an error.">>
         /\ Head(response[1].answer) = "I encountered an error: "
         /\ Embeds(response[1].answer, caught[Len(caught)].message)

\* C2 witness: a fallback tool call raised and process_query returned.
C2_Witness ==
  /\ Returned
  /\ calls # <<>> /\ llm_calls = 0
  /\ caught # <<>> /\ caught[1].handler = "top"

Max0(n) == IF n > 0 THEN n ELSE 0

\* C3: the returned articles list is never longer than max(min_articles, 0).
C3_ArticlesAtMostMin ==
  pc = "done" => Len(response[1].articles) <= Max0(min_articles)

\* C3 witness: more articles were combined than asked for, and the response
\* was cut to min_articles.
C3_Witness ==
  /\ SynthesisSucceeded
  /\ min_articles >= 1
  /\ Len(combined_data.articles) > min_articles
  /\ Len(response[1].articles) = min_articles

\* C4 (as claimed): when synthesis succeeds and fewer than min_articles
\* articles were combined, every combined entry is returned.
C4_AllReturnedWhenFewer ==
  (SynthesisSucceeded /\ Len(combined_data.articles) < min_articles)
    => Len(response[1].articles) = Len(combined_data.articles)

\* C5 (as claimed): the returned sentiment is one of the four values.
C5_SentimentInSet ==
  pc = "done" => response[1].sentiment \in Sentiments

\* C6: when no article is left after the primary merge and the fallback
\* stages, the canonical empty-result response is returned (no article,
\* Neutral, the answer saying that nothing was found) and the synthesis
\* model is not called.
C6_ExhaustedReturnsEmptyResult ==
  ((pc = "final" \/ (pc = "done" /\ caught = <<>>)) /\ combined_data.articles = <<>>)
    => /\ llm_calls = 0
       /\ pc = "done" =>
            /\ Len(response) = 1
            /\ response[1].articles = <<>>
            /\ response[1].sentiment = "Neutral"
            /\ Embeds(response[1].answer, NoDataMessage)

\* C6 witness: all three fallback calls were made, nothing came back, and
\* process_query returned.
C6_Witness ==
  /\ Returned /\ caught = <<>>
  /\ combined_data.articles = <<>>
  /\ Len(calls) = 3

\* whether the tool has put an article or a tweet into this query's data
HasContributed(tool) ==
  /\ OrderedHas(tool_responses, tool)
  /\ \/ Get(tool_responses.vals[tool], "articles", <<>>) # <<>>
     \/ Get(tool_responses.vals[tool], "tweets", <<>>) # <<>>

RECURSIVE CountCalls(_, _)
CountCalls(cs, tool) ==
  IF cs = <<>> THEN 0
  ELSE (IF Head(cs).tool = tool THEN 1 ELSE 0) + CountCalls(Tail(cs), tool)

\* C7: no fallback stage calls twitter or crypto_news once that tool has
\* contributed an article or a tweet to the query.
C7_NoCallAfterContribution ==
  [][\A tool \in {"twitter", "crypto_news"} :
       HasContributed(tool) => CountCalls(calls', tool) = CountCalls(calls, tool)]_vars

\* C7 witness: the token probe brought tweets and the generic social stage
\* has been passed without a second twitter call.
C7_Witness ==
  /\ pc = "news"
  /\ HasContributed("twitter")
  /\ CountCalls(calls, "twitter") = 1 /\ calls[1].stage = "token_probe"

\* the result of task i is one the await loop keeps
Usable(i) ==
  /\ tool_tasks[i].state = "done"
  /\ "ret" \in DOMAIN tool_tasks[i].outcome
  /\ ~IsDiscarded(tool_tasks[i].outcome.ret)

RECURSIVE IsSubsequence(_, _)
IsSubsequence(part, whole) ==
  IF part = <<>> THEN TRUE
  ELSE IF whole = <<>> THEN FALSE
  ELSE IF Head(part) = Head(whole) THEN IsSubsequence(Tail(part), Tail(whole))
  ELSE IsSubsequence(part, Tail(whole))

\* C8: once the await loop is over every dispatched task has been awaited,
\* whatever the others did, and after the merge the articles and tweets of
\* every usable result are in the combined dataset.
C8_FailureIsolated ==
  /\ PastAwait => \A i \in 1..Len(tool_tasks) : SeqContains(awaited, i)
  /\ PastMerge =>
       \A i \in 1..Len(tool_tasks) :
         Usable(i) =>
           /\ OrderedHas(tool_responses, tool_tasks[i].name)
           /\ IsSubsequence(Get(tool_tasks[i].outcome.ret, "articles", <<>>),
                            combined_data.articles)
           /\ IsSubsequence(Get(tool_tasks[i].outcome.ret, "tweets", <<>>),
                            combined_data.tweets)

\* C8 witness: the first task raised, the second brought tweets, merged.
C8_Witness ==
  /\ pc = "token_probe"
  /\ Len(tool_tasks) = 2
  /\ "exc" \in DOMAIN tool_tasks[1].outcome
  /\ Usable(2) /\ tool_tasks[2].outcome.ret.tweets # <<>>
  /\ combined_data.tweets # <<>>

\* the dict and the dataset that taking the tasks in list order gives
RECURSIVE ListOrderResponses(_, _)
ListOrderResponses(i, d) ==
  IF i > Len(tool_tasks) THEN d
  ELSE ListOrderResponses(i + 1,
         IF Usable(i) THEN OrderedPut(d, tool_tasks[i].name, tool_tasks[i].outcome.ret)
         ELSE d)

ListOrderCombined ==
  LET d == ListOrderResponses(1, EmptyOrderedDict)
  IN MergeAll(d.keys, d.vals, EmptyCombined)

\* C9: the combined articles and tweets are a function of the invocation
\* list and the tool results alone: they are what taking the tasks in list
\* order gives, in whatever order the tasks completed.
C9_MergeIndependentOfCompletion ==
  pc = "token_probe" =>
    /\ combined_data.articles = ListOrderCombined.articles
    /\ combined_data.tweets = ListOrderCombined.tweets

\* C9 witness: the second task completed before the first, both brought
\* data, and the merge is done.
C9_Witness ==
  /\ pc = "token_probe"
  /\ overtaken
  /\ Len(tool_tasks) = 2 /\ Usable(1) /\ Usable(2)
  /\ Get(tool_tasks[1].outcome.ret, "articles", <<>>) # <<>>
  /\ Get(tool_tasks[2].outcome.ret, "tweets", <<>>) # <<>>

\* the results held for the registered tools, in registration order
RECURSIVE RegistryOrderNames(_)
RegistryOrderNames(names) ==
  IF names = <<>> THEN <<>>
  ELSE (IF OrderedHas(tool_responses, Head(names)) THEN <<Head(names)>> ELSE <<>>)
       \o RegistryOrderNames(Tail(names))

RegistryOrderCombined ==
  MergeAll(RegistryOrderNames(RegisteredTools), tool_responses.vals, EmptyCombined)

HasData(result) ==
  Get(result, "articles", <<>>) # <<>> \/ Get(result, "tweets", <<>>) # <<>>

\* C11: when the await loop is over, a primary result is entered in
\* tool_responses if and only if it holds at least one article or tweet.
C11_RecordedIffData ==
  pc = "merge" =>
    \A i \in 1..Len(tool_tasks) :
      "ret" \in DOMAIN tool_tasks[i].outcome =>
        (OrderedHas(tool_responses, tool_tasks[i].name) <=> HasData(tool_tasks[i].outcome.ret))

\* select_tools has returned into process_query
SelectionReturned == pc \in {"dispatch", "await", "merge", "done"}

\* ... and the value came from the handling of the model's reply
ReplyHandled == SelectionReturned /\ selection_calls = 1

RECURSIVE TaskNames(_)
TaskNames(tasks) ==
  IF tasks = <<>> THEN <<>> ELSE <<Head(tasks).name>> \o TaskNames(Tail(tasks))

NamesUnknownTool(reply) ==
  /\ reply.kind = "json"
  /\ "tools_needed" \in reply.keys
  /\ \E i \in 1..Len(reply.tools_needed) : ~IsRegistered(reply.tools_needed[i].name)

NamesRegisteredOnly(reply) ==
  /\ reply.kind = "json"
  /\ "tools_needed" \in reply.keys
  /\ reply.tools_needed # <<>>
  /\ \A i \in 1..Len(reply.tools_needed) : IsRegistered(reply.tools_needed[i].name)

\* C15: when the selection model answers with a well-formed tools_needed
\* list of registered tools, select_tools returns exactly that list, in the
\* model's order and with the model's custom_input.
C15_ValidSelectionReturned ==
  (SelectionReturned /\ NamesRegisteredOnly(selection_reply)) =>
    selected_tools = PyList(selection_reply.tools_needed)

\* the synthesis model replied (its call did not raise) and process_query returned
SynthesisReplied ==
  pc = "done" /\ llm_calls = 1 /\ llm_reply # <<>> /\ llm_reply[1].kind # "exc"

\* json.loads fails on the reply
Unparseable(reply) == reply.kind = "text" \/ reply.fence = "plain"

\* the spellings of a keyword among the words of the replies
BullishForms == {"bullish", "Bullish", "BULLISH", "Very Bullish"}

BearishForms == {"bearish", "Bearish", "BEARISH"}

MixedForms == {"mixed", "Mixed", "MIXED"}

Mentions(text, forms) == \E i \in 1..Len(text) : text[i] \in forms

\* C16 as stated: an unparseable reply that mentions "bearish" in any letter
\* case, whatever else it says, gives sentiment Bearish.
C16_BearishAnywhere ==
  (SynthesisReplied /\ Unparseable(llm_reply[1])
     /\ Mentions(ResponseText(llm_reply[1]), BearishForms)) =>
    response[1].sentiment = "Bearish"

\* C16 amended: an unparseable reply that mentions "bearish" in any letter
\* case and does not mention "bullish" gives sentiment Bearish.
C16_BearishWithoutBullish ==
  (SynthesisReplied /\ Unparseable(llm_reply[1])
     /\ Mentions(ResponseText(llm_reply[1]), BearishForms)
     /\ ~Mentions(ResponseText(llm_reply[1]), BullishForms)) =>
    response[1].sentiment = "Bearish"

\* C16 witness: the prose reply with BEARISH in capitals came back as Bearish.
C16_Witness ==
  /\ SynthesisReplied
  /\ llm_reply[1].kind = "text"
  /\ Mentions(llm_reply[1].words, {"BEARISH"})
  /\ response[1].sentiment = "Bearish"

GenericTopics == <<"Bitcoin", "Ethereum", "Cryptocurrency", "Market Analysis", "Trading">>

\* the sentiment is one the keyword scan can give for the text
FromKeywordScan(sentiment, text) ==
  /\ sentiment = "Bullish" => Mentions(text, BullishForms)
  /\ sentiment = "Bearish" => Mentions(text, BearishForms)
  /\ sentiment = "Mixed" => Mentions(text, MixedForms)
  /\ sentiment = "Neutral" => ~Mentions(text, BullishForms \cup BearishForms \cup MixedForms)
  /\ sentiment \in Sentiments

\* the response of the text extraction for the reply
IsTextExtraction(reply) ==
  /\ Len(response) = 1
  /\ response[1].answer = ResponseText(reply)
  /\ response[1].trending_topics = GenericTopics
  /\ FromKeywordScan(response[1].sentiment, ResponseText(reply))

\* C17 as stated: a reply that is no structured object (unparseable text, or
\* JSON that is no object) gives a response with the raw reply as answer,
\* the generic topics and the sentiment of the keyword scan.
C17_NoObjectGivesTextExtraction ==
  (SynthesisReplied /\ (Unparseable(llm_reply[1]) \/ llm_reply[1].kind = "json_other")) =>
    IsTextExtraction(llm_reply[1])

\* C17 amended: a reply that json.loads rejects gives a response with the
\* raw reply as answer, the generic topics and the sentiment of the keyword scan.
C17_UnparseableGivesTextExtraction ==
  (SynthesisReplied /\ Unparseable(llm_reply[1])) => IsTextExtraction(llm_reply[1])

\* C17 witness: a prose reply without keyword came back as answer, Neutral.
C17_Witness ==
  /\ SynthesisReplied
  /\ llm_reply[1].kind = "text"
  /\ response[1].answer = llm_reply[1].words
  /\ response[1].sentiment = "Neutral"
  /\ response[1].trending_topics = GenericTopics

\* C20: a query whose primary merge produced at least one article makes
\* no fallback tool call (token probe, social retry, news retry).
C20_NoFallbackAfterPrimaryArticles ==
  (PastMerge /\ ListOrderCombined.articles # <<>>) => calls = <<>>

\* C20 witness: the primary merge had articles and the query went through
\* all three fallback stages to its synthesis without a fallback call.
C20_Witness ==
  /\ pc = "done" /\ llm_calls = 1
  /\ ListOrderCombined.articles # <<>>
  /\ calls = <<>>

\* the links whose last successful write is younger than the record lifetime
StoredLinks == {l \in DOMAIN written : clock < written[l].at + CACHE_TTL}

\* the article records Redis holds, as (key, value) pairs
ArticleRecords == {<<k, redis_articles[k].value>> : k \in DOMAIN redis_articles}

\* one record per stored link, holding the payload written last
OneRecordPerLink ==
  /\ Cardinality(DOMAIN redis_articles) = Cardinality(StoredLinks)
  /\ \A l \in StoredLinks :
       /\ ArticleKey(l) \in DOMAIN redis_articles
       /\ JsonParse(redis_articles[ArticleKey(l)].value) = written[l].payload

\* a step that writes, for a link that has a record, the payload it already has
StoresSameArticleAgain(l) ==
  /\ l \in StoredLinks
  /\ l \in DOMAIN written'
  /\ written'[l].ordinal = written[l].ordinal + 1
  /\ written'[l].payload = written[l].payload

\* C18: at every point of any interleaving of set_articles calls the cache
\* holds exactly one article record per non-empty link stored within the
\* record lifetime, with the payload of the last write for the link; and
\* writing an article that is already stored leaves the records unchanged.
C18_OneRecordPerLinkLastWriteWins ==
  /\ []OneRecordPerLink
  /\ [][\A l \in DOMAIN written : StoresSameArticleAgain(l) => ArticleRecords' = ArticleRecords]_vars

\* C18 witness: the first link was written twice, the revised payload last,
\* by writers that both got as far as storing; the second link is stored too.
C18_Witness ==
  /\ "https://n/1" \in StoredLinks /\ "https://n/2" \in StoredLinks
  /\ written["https://n/1"].ordinal >= 2
  /\ written["https://n/1"].payload = FirstArticleRevised
  /\ redis_articles[ArticleKey("https://n/1")].value = JsonDumps(FirstArticleRevised)
  /\ Cardinality(DOMAIN redis_articles) = 2

\* writer w has just come back from an update_cache whose set_articles
\* stored the fetched batch and wrote the marker
BulkUpdateJustCompleted(w) ==
  /\ writers[w].state = "returned"
  /\ writers[w].op = "update_cache"
  /\ writers[w].batch # <<>>
  /\ ~writers[w].raised
  /\ writers[w].at = clock

\* C19: is_cache_stale(m) is true when there is no last-update marker, and
\* false right after a bulk update has completed, for every m > 0.
C19_StaleWithoutMarkerFreshAfterUpdate ==
  \A m \in 1..MaxAge :
    /\ redis_last_update = <<>> =>
         \A answers \in RedisAnswers : is_cache_stale(get_last_update_time(answers), clock, m)
    /\ \A w \in Writers :
         BulkUpdateJustCompleted(w) => ~is_cache_stale(get_last_update_time(TRUE), clock, m)

\* C19 witness: the scheduler has just completed a bulk update, later than
\* time 0, and the other writer is in the middle of its own batch.
C19_Witness ==
  /\ BulkUpdateJustCompleted("cron")
  /\ clock > 0
  /\ writers["agent"].state = "storing"
  /\ redis_last_update = <<clock>>

\* additional_context carries a token name
CarriesTokenName(ctx) ==
  HasTokenData(ctx) /\ ctx.token_data.tag = "dict" /\ ctx.token_data.token_name # <<>>

\* the token name the claim speaks of: the one of the context, else the text
\* before "token" in the query
ClaimedTokenName(q, ctx) ==
  IF CarriesTokenName(ctx) THEN ctx.token_data.token_name ELSE TokenPrefix(q)

\* C21: whenever the primary merge is empty and the query contains "token"
\* (any case) or additional_context carries a token name, the token-probe
\* stage calls twitter with a query built from that token name.
C21_TokenProbeCallsTwitter ==
  (pc = "social" /\ ListOrderCombined.articles = <<>>
     /\ (ContainsToken(query) \/ CarriesTokenName(additional_context))) =>
    /\ calls # <<>>
    /\ calls[1] = [stage |-> "token_probe", tool |-> "twitter",
                   input |-> ClaimedTokenName(query, additional_context)
                               \o <<" token cryptocurrency">>]


\* C22: whenever the articles are still empty after the token probe and
\* twitter has not contributed a tweet to the query (not selected, failed, or
\* no tweets), the generic social stage calls twitter with the raw query.
C22_SocialRetryWheneverNoTweets ==
  [][(pc = "social" /\ combined_data.articles = <<>> /\ ~HasContributed("twitter")) =>
       calls' = Append(calls, [stage |-> "generic_social", tool |-> "twitter",
                               input |-> <<query>>])]_vars


\* the step makes one more call of the tool
CallsTool(tool) == CountCalls(calls', tool) = CountCalls(calls, tool) + 1

\* C23: crypto_news is called as a fallback only at the news stage, which
\* follows the two social stages, and exactly when the articles are still
\* empty and crypto_news has not contributed; when the call brings articles
\* they are appended to the combined articles.
C23_NewsRetryExactlyWhenStillEmpty ==
  /\ [][CallsTool("crypto_news") <=>
          (pc = "news" /\ combined_data.articles = <<>> /\ ~HasContributed("crypto_news"))]_vars
  /\ [][CallsTool("crypto_news") =>
          /\ calls' = Append(calls, [stage |-> "generic_news", tool |-> "crypto_news",
                                     input |-> <<query>>])
          /\ \A i \in 1..Len(calls) : calls[i].stage \in {"token_probe", "generic_social"}
          /\ IF OrderedHas(tool_responses', "crypto_news")
               THEN /\ tool_responses'.vals["crypto_news"].articles # <<>>
                    /\ combined_data'.articles =
                         combined_data.articles \o tool_responses'.vals["crypto_news"].articles
               ELSE combined_data' = combined_data]_vars

\* C23 witness: both social stages called twitter in vain, then the news
\* call brought the articles that are now the combined articles.
C23_Witness ==
  /\ pc = "final"
  /\ Len(calls) = 3 /\ calls[3].tool = "crypto_news"
  /\ HasContributed("crypto_news")
  /\ combined_data.articles = tool_responses.vals["crypto_news"].articles

\* C24: the synthesis model is called at most once in a process_query
\* execution, and it is called exactly when the fallback chain has ended
\* with a non-empty combined article sequence.
C24_SynthesisOnceIffArticles ==
  /\ [](llm_calls <= 1)
  /\ [][llm_calls' = llm_calls + 1 <=> (pc = "final" /\ combined_data.articles # <<>>)]_vars
  /\ [][llm_calls' # llm_calls => llm_calls' = llm_calls + 1]_vars

\* C24 witness: the chain ended with articles that only the news fallback
\* brought, and the model was called once.
C24_Witness ==
  /\ pc = "done" /\ llm_calls = 1 /\ llm_reply # <<>>
  /\ calls # <<>> /\ calls[Len(calls)].tool = "crypto_news"
  /\ combined_data.articles # <<>> /\ combined_data.tweets = <<>>


\* the articles of the sequence with category "Social Media", in order
RECURSIVE SocialMediaArticles(_)
SocialMediaArticles(articles) ==
  IF articles = <<>> THEN <<>>
  ELSE (IF Head(articles).category = <<"Social Media">> THEN <<Head(articles)>> ELSE <<>>)
       \o SocialMediaArticles(Tail(articles))

\* C25: after the primary merge and after every fallback stage, the
\* combined articles hold exactly one synthesized article per combined tweet
\* (title "Tweet by @author", category "Social Media"), in the tweets'
\* order, so there are never fewer articles than tweets.
C25_OneArticlePerTweet ==
  PastMerge =>
    /\ Len(SocialMediaArticles(combined_data.articles)) = Len(combined_data.tweets)
    /\ \A i \in 1..Len(combined_data.tweets) :
         LET a == SocialMediaArticles(combined_data.articles)[i]
         IN /\ a.title = <<"Tweet by @">> \o combined_data.tweets[i].author
            /\ a.summary = combined_data.tweets[i].text
    /\ Len(combined_data.articles) >= Len(combined_data.tweets)

\* C25 witness: the tweet of a fallback call stands in the combined tweets
\* with its article.
C25_Witness ==
  /\ pc = "news"
  /\ calls # <<>> /\ calls[Len(calls)].stage = "generic_social"
  /\ combined_data.tweets # <<>>
  /\ Len(combined_data.articles) = Len(combined_data.tweets)


\* the merged results that carry a time_context, in merge order
RECURSIVE TimeContextCarriers(_)
TimeContextCarriers(names) ==
  IF names = <<>> THEN <<>>
  ELSE (IF "time_context" \in DOMAIN tool_responses.vals[Head(names)]
          THEN <<Head(names)>> ELSE <<>>) \o TimeContextCarriers(Tail(names))

\* the synthesis prompt has been built from combined_data
SynthesisCalled == pc = "done" /\ llm_calls = 1

\* C26: the time_context handed to the synthesis call is that of the last
\* merged result, primary or fallback, that carries one, and "Recent news"
\* only when no merged result carries one.
C26_TimeContextOfLastCarrier ==
  SynthesisCalled =>
    LET carriers == TimeContextCarriers(tool_responses.keys)
    IN combined_data.time_context =
         IF carriers = <<>> THEN <<"Recent news">>
         ELSE tool_responses.vals[carriers[Len(carriers)]].time_context


\* _build_final_response has returned the response of process_query
FinalResponseBuilt == pc = "done" /\ llm_calls = 1 /\ caught = <<>> /\ Len(response) = 1

\* the titles of the analysis entries of the response
ResponseAnalysisTitles ==
  LET entries == response[1].article_analysis.items
  IN [i \in 1..Len(entries) |-> IF "title" \in DOMAIN entries[i] THEN entries[i].title ELSE <<>>]

\* the articles of the sequence that bear the title, in order
RECURSIVE WithTitle(_, _)
WithTitle(articles, title) ==
  IF articles = <<>> THEN <<>>
  ELSE (IF Head(articles).title = title THEN <<Head(articles)>> ELSE <<>>)
       \o WithTitle(Tail(articles), title)

\* the matching articles entry by entry: those of the first analysis title,
\* then those of the second, ...
RECURSIVE MatchedInAnalysisOrder(_, _, _)
MatchedInAnalysisOrder(articles, titles, i) ==
  IF i > Len(titles) THEN <<>>
  ELSE (IF \E j \in 1..(i - 1) : titles[j] = titles[i] THEN <<>>
        ELSE WithTitle(articles, titles[i]))
       \o MatchedInAnalysisOrder(articles, titles, i + 1)

\* the matching articles as they stand in the combined sequence
RECURSIVE MatchedInCombinedOrder(_, _)
MatchedInCombinedOrder(articles, titles) ==
  IF articles = <<>> THEN <<>>
  ELSE (IF \E j \in 1..Len(titles) : titles[j] = Head(articles).title
          THEN <<Head(articles)>> ELSE <<>>)
       \o MatchedInCombinedOrder(Tail(articles), titles)

\* the returned articles begin with the matching ones, as many as min_articles allows
BeginsWith(returned, matched) ==
  LET k == IF Len(matched) < Max0(min_articles) THEN Len(matched) ELSE Max0(min_articles)
  IN Len(returned) >= k /\ SubSeq(returned, 1, k) = SubSeq(matched, 1, k)

\* C27 as stated: the articles whose title is an analysis title are returned
\* first, in the order of the analysis entries, up to min_articles.
C27_MatchedFirstInAnalysisOrder ==
  FinalResponseBuilt =>
    BeginsWith(response[1].articles,
               MatchedInAnalysisOrder(combined_data.articles, ResponseAnalysisTitles, 1))

\* C27 amended: the articles whose title is an analysis title are returned
\* first, in the order of the combined sequence, up to min_articles.
C27_MatchedFirstInCombinedOrder ==
  FinalResponseBuilt =>
    BeginsWith(response[1].articles,
               MatchedInCombinedOrder(combined_data.articles, ResponseAnalysisTitles))

\* C27 witness: the analysis names the tweet before the news article, the
\* combined sequence has them the other way round, and both are returned.
C27_Witness ==
  /\ FinalResponseBuilt
  /\ min_articles >= 2
  /\ Len(ResponseAnalysisTitles) = 2
  /\ Len(combined_data.articles) = 2
  /\ combined_data.articles[1].title = ResponseAnalysisTitles[2]
  /\ combined_data.articles[2].title = ResponseAnalysisTitles[1]
  /\ combined_data.articles[1] # combined_data.articles[2]
  /\ response[1].articles = combined_data.articles


\* entry i of the analysis has a significance
HasSignificance(entries, i) ==
  "significance" \in DOMAIN entries[i] /\ entries[i].significance # <<>>

\* the significance values of entries i..k that have one, a blank between two
RECURSIVE SignificancesOf(_, _, _)
SignificancesOf(entries, i, k) ==
  IF i > k THEN <<>>
  ELSE LET rest == SignificancesOf(entries, i + 1, k)
       IN IF ~HasSignificance(entries, i) THEN rest
          ELSE IF rest = <<>> THEN entries[i].significance
          ELSE entries[i].significance \o <<" ">> \o rest

GenericContext == <<"Based on analysis of recent cryptocurrency news.">>

\* C28: the context of the response is the significance values of those of
\* the first three analysis entries that have one, concatenated; it is the
\* generic sentence when none of the first three has one, also when only a
\* fourth or later entry has one and when there is no analysis.
C28_ContextFromFirstThree ==
  FinalResponseBuilt =>
    LET entries == response[1].article_analysis.items
        k == IF Len(entries) < 3 THEN Len(entries) ELSE 3
    IN response[1].context =
         IF \E i \in 1..k : HasSignificance(entries, i)
           THEN SignificancesOf(entries, 1, k)
           ELSE GenericContext

\* C28 witness: of four entries the first and the third have a significance
\* and make the context; the fourth has one too and is left out.
C28_Witness ==
  /\ FinalResponseBuilt
  /\ response[1].article_analysis.items = <<EtfEntry, TweetEntry, MinerEntry, EtfEntry>>
  /\ response[1].context = <<"Inflow of funds.", " ", "Supply pressure.">>


\* set_articles makes a record of the article: its link is a non-empty string
Storable(article) ==
  "link" \in DOMAIN article /\ article.link # "" /\ "link_type" \notin DOMAIN article

\* writer w is inside set_articles, has stored a record of its batch, and a
\* record of the batch still to come is not among the articles a reader gets
PartiallyWritten(w) ==
  /\ writers[w].state = "storing"
  /\ \E i \in 1..(writers[w].idx - 1) : Storable(writers[w].batch[i])
  /\ \E j \in writers[w].idx..Len(writers[w].batch) :
       /\ Storable(writers[w].batch[j])
       /\ \E keys \in KeyOrders :
            ~SeqContains(get_articles(TRUE, keys, DefaultLimit, <<>>), writers[w].batch[j])

\* C29: whenever is_cache_stale reports fresh, a reader running beside the
\* bulk writers gets every record of the latest batch from get_articles: no
\* fresh marker is seen together with a partially written batch.
C29_FreshMarkerMeansCompleteBatch ==
  \A m \in 1..MaxAge :
    ~is_cache_stale(get_last_update_time(TRUE), clock, m) =>
      \A w \in Writers : ~PartiallyWritten(w)


\* a task of the list has been awaited or has completed
AwaitLoopStarted == awaited # <<>> \/ \E i \in 1..Len(tool_tasks) : tool_tasks[i].state = "done"

\* C30: every selected tool's task is created before the first task is
\* awaited: from the first await on the task list is the full list, one task
\* per selected registered tool in the selection's order, and the step that
\* creates the tasks leaves them all pending together.
C30_AllTasksCreatedBeforeFirstAwait ==
  /\ [](AwaitLoopStarted =>
          /\ selected_tools.tag = "list"
          /\ TaskNames(tool_tasks) = TaskNames(ValidTools(selected_tools.items)))
  /\ [][tool_tasks' # tool_tasks =>
          \/ /\ tool_tasks = <<>> /\ awaited = <<>>
             /\ TaskNames(tool_tasks') = TaskNames(ValidTools(selected_tools.items))
             /\ \A i \in 1..Len(tool_tasks') : tool_tasks'[i].state = "pending"
          \/ TaskNames(tool_tasks') = TaskNames(tool_tasks)]_vars

\* C30 witness: both tasks of the query are pending and none has been awaited.
C30_Witness ==
  /\ pc = "await" /\ awaited = <<>>
  /\ Len(tool_tasks) = 2
  /\ \A i \in 1..Len(tool_tasks) : tool_tasks[i].state = "pending"


\* C31: process_query cancels no task, every task it created has completed
\* with a result or an exception before it returns; and when every tool
\* call and every model call returns, process_query returns a response.
C31_NoTaskLeftAndReturns ==
  /\ [](pc = "done" =>
          \A i \in 1..Len(tool_tasks) :
            tool_tasks[i].state = "done" /\ SeqContains(awaited, i))
  /\ [][\A i \in 1..Len(tool_tasks) :
          tool_tasks[i].state = "done" =>
            i \in 1..Len(tool_tasks') /\ tool_tasks'[i] = tool_tasks[i]]_vars
  /\ <>(pc = "done" /\ Len(response) = 1)

\* C31 witness: one task ended with an exception, the other with a result,
\* and process_query has returned.
C31_Witness ==
  /\ Returned
  /\ Len(tool_tasks) = 2
  /\ "exc" \in DOMAIN tool_tasks[1].outcome
  /\ "ret" \in DOMAIN tool_tasks[2].outcome


\* ---------------------------------------------------------------------------
\* C34: a model reply that is a JSON object inside a Markdown fence, with or
\* without the json tag, is parsed to the same object as the bare reply.
Unwrapped(reply) == [reply EXCEPT !.fence = "none"]

C34_FencedReplyParsedAsBare ==
  \A i \in 1..Len(llm_reply) :
    (llm_reply[i].kind = "json" /\ llm_reply[i].fence # "none") =>
      /\ parse_llm_response(llm_reply[i], clock) = llm_reply[i].object
      /\ parse_llm_response(llm_reply[i], clock) =
           parse_llm_response(Unwrapped(llm_reply[i]), clock)

\* ---------------------------------------------------------------------------
\* C35: the query field of every response process_query returns is the query
\* string the caller passed in, on the success path and on every fallback path.
C35_ResponseQueryIsCallersQuery ==
  \A i \in 1..Len(response) : response[i].query = query

\* ---------------------------------------------------------------------------
\* C36: an exception raised by the social-search call of the fallback chain
\* (token probe or generic social retry) is isolated, the news fallback stage
\* is still attempted: process_query is not ended by it.
C36_FallbackSocialFailureIsolated ==
  [][(pc \in {"token_probe", "social"} /\ Len(calls') = Len(calls) + 1
        /\ calls'[Len(calls')].tool = "twitter")
       => (pc' \in {"social", "news"} /\ caught' = caught /\ response' = <<>>)]_vars


\* ---------------------------------------------------------------------------
\* update_cache has called fetch_articles: it is storing the fetched batch or
\* has returned False for an empty one
Fetched(writer) ==
  writer.op = "update_cache" /\ (writer.batch # <<>> \/ writer.result = "False")

\* C38: update_cache fetches from the upstream API only when is_cache_stale
\* is true; a fetch that returns no articles writes nothing and leaves the
\* last-update marker unchanged, so the cache stays stale and the next call
\* of update_cache fetches again.
C38_FetchOnlyWhenStaleEmptyFetchWritesNothing ==
  [][\A w \in Writers :
       LET called == writers[w].state = "idle" /\ writers'[w].op = "update_cache"
       IN /\ (called /\ Fetched(writers'[w])) => writers'[w].stale = TRUE
          /\ (called /\ is_cache_stale(redis_last_update, clock, CRON_INTERVAL))
               => Fetched(writers'[w])
          /\ (called /\ writers'[w].result = "False")
               => UNCHANGED <<redis_articles, redis_last_update, written>>
          /\ writers[w].result = "False" => writers'[w] = writers[w]
          /\ (is_cache_stale(redis_last_update, clock, CRON_INTERVAL)
                /\ redis_last_update' = redis_last_update)
               => is_cache_stale(redis_last_update', clock', CRON_INTERVAL)]_vars

\* C38 witness: the API process's update_cache fetched nothing and returned
\* False, no marker was written, and the scheduler's later update_cache has
\* fetched again and is storing its batch.
C38_Witness ==
  /\ writers["agent"].result = "False"
  /\ writers["agent"].stale = TRUE
  /\ redis_last_update = <<>>
  /\ Fetched(writers["cron"])
  /\ writers["cron"].state = "storing"
  /\ writers["cron"].at > writers["agent"].at


\* ---------------------------------------------------------------------------
\* C37: a dexscreener invocation dispatched by process_query, which passes
\* only the query parameter, always yields an error-only result that is
\* discarded: dexscreener contributes no tool_responses entry, no article and
\* no tweet to the query.
WithoutDexscreener(names) == SelectSeq(names, LAMBDA n : n # "dexscreener")

C37_DexscreenerNeverContributes ==
  /\ \A i \in 1..Len(tool_tasks) :
       (tool_tasks[i].name = "dexscreener" /\ tool_tasks[i].state = "done") =>
         /\ "ret" \in DOMAIN tool_tasks[i].outcome
         /\ DOMAIN tool_tasks[i].outcome.ret = {"error"}
         /\ IsDiscarded(tool_tasks[i].outcome.ret)
  /\ ~OrderedHas(tool_responses, "dexscreener")
  /\ ~SeqContains(successful_tools, "dexscreener")
  /\ PastMerge =>
       combined_data = MergeAll(WithoutDexscreener(tool_responses.keys),
                                tool_responses.vals, EmptyCombined)

\* C37 witness: a dexscreener task was created, awaited and merged beside a
\* twitter task that brought a tweet.
C37_Witness ==
  /\ pc = "token_probe"
  /\ \E i \in 1..Len(tool_tasks) :
       tool_tasks[i].name = "dexscreener" /\ SeqContains(awaited, i)
  /\ combined_data.tweets # <<>>


\* ---------------------------------------------------------------------------
\* the "published" timestamp of the article is missing (no key, or null) or
\* malformed (a number, a text that is no timestamp)
MissingOrMalformedDate(article) ==
  \/ "published" \notin DOMAIN article
  \/ article.published.tag # "str"
  \/ article.published.form # "iso"

\* C32: get_articles with hours_back set never raises on an article whose
\* published timestamp is missing or malformed, and includes that article in
\* its result (the limit being no less than the number of records).
C32_UndatedArticleIncluded ==
  [][(/\ client' # client
      /\ client'[1].op = "get_articles"
      /\ ~client'[1].failed
      /\ client'[1].args.hours_back # <<>>
      /\ client'[1].args.limit >= Cardinality(DOMAIN redis_articles))
       => /\ "ret" \in DOMAIN client'[1].outcome
          /\ \A k \in DOMAIN redis_articles :
               MissingOrMalformedDate(JsonParse(redis_articles[k].value)) =>
                 SeqContains(client'[1].outcome.ret, JsonParse(redis_articles[k].value))]_vars


\* ---------------------------------------------------------------------------
\* the step is a call of a single-key operation or of a read
NewCall ==
  /\ client' # <<>>
  /\ (client = <<>> \/ client[1].op # client'[1].op \/ client[1] # client'[1])

\* C33: the last-update marker is written only by set_articles;
\* set_search_results, set_data, every read operation and the expiry of
\* records leave the marker, and with it the result of is_cache_stale,
\* unchanged.
C33_MarkerWrittenOnlyBySetArticles ==
  [][/\ redis_last_update' # redis_last_update =>
          \E w \in DOMAIN writers :
            /\ writers[w].state = "marking"
            /\ writers'[w].state = "returned"
            /\ ~writers'[w].raised
     /\ (NewCall \/ clock' # clock) =>
          /\ redis_last_update' = redis_last_update
          /\ \A m \in 1..MaxAge :
               is_cache_stale(redis_last_update', clock', m)
                 = is_cache_stale(redis_last_update, clock', m)]_vars

\* C33 witness: set_articles wrote the marker, and later a set_data call
\* stored its record beside it.
C33_Witness ==
  /\ redis_last_update # <<>>
  /\ clock > redis_last_update[1]
  /\ client # <<>>
  /\ client[1].op = "set_data"
  /\ ~client[1].failed
  /\ DataKey(client[1].args.key) \in DOMAIN redis_other

\* ---------------------------------------------------------------------------
\* what an operation hands back when its Redis command raised
ValueOnFailure(op) ==
  CASE op = "get_articles" -> <<>>
    [] op = "get_search_results" -> <<>>
    [] op = "get_data" -> PyNone
    [] op = "is_cache_stale" -> TRUE
    [] OTHER -> PyNone

store == <<redis_articles, redis_last_update, redis_other>>

\* C39: no RedisCache operation propagates a store failure to its caller: on
\* failure the setters change nothing they have not already written and
\* return normally, get_articles and get_search_results return an empty list,
\* get_data returns None, and is_cache_stale returns true.
C39_StoreFailureNeverPropagates ==
  /\ [](\A i \in 1..Len(client) :
          /\ "ret" \in DOMAIN client[i].outcome
          /\ client[i].failed => client[i].outcome.ret = ValueOnFailure(client[i].op))
  /\ [][(NewCall /\ client'[1].failed) => UNCHANGED store]_vars
  /\ [][\A w \in DOMAIN writers :
          (writers'[w].raised /\ ~writers[w].raised) =>
            /\ writers'[w].state = "returned"
            /\ UNCHANGED store]_vars

\* C39 witness: set_articles has come back after a failed command, a record
\* stored by set_data is in the store, and a get_data whose read raised has
\* handed back None.
C39_Witness ==
  /\ \E w \in DOMAIN writers : writers[w].state = "returned" /\ writers[w].raised
  /\ client # <<>>
  /\ client[1].op = "get_data"
  /\ client[1].failed
  /\ client[1].outcome = [ret |-> PyNone]
  /\ DataKey(client[1].args.key) \in DOMAIN redis_other

====
